---- MODULE Spec2Model ----
(***************************************************************************)
(* Antigravity2api gateway: the credential pool (TokenManager), the API    *)
(* key rate limiter (key-manager) and the SSE handlers, as state machines. *)
(* Array indices of the program are 0-based; sequences here are 1-based,   *)
(* so tokens[currentIndex] of the program is tokens[currentIndex + 1].     *)
(***************************************************************************)
EXTENDS Integers, Sequences, FiniteSets, TLC

(***************************************************************************)
(* Bounds of the model and constants of the program                        *)
(***************************************************************************)
MaxCalls == 2
MaxSeqCalls == 3
MaxRotCalls == 5
MaxTicks == 1
MaxRefresh == 2
MaxChecks == 3
MaxDenyChecks == 4
MaxAuthCalls == 4
MaxKeyCalls == 4
MaxPersistCalls == 4
MaxText == 2
MaxBlocks == 2
MaxMessages == 2
MaxEvents == 3
MaxParts == 2
MaxToolCalls == 2
MaxToolMessages == 3
MaxAccountCalls == 3
MaxCallers == 3
MaxRuns == 4
MaxLogs == 3
MaxBuffer == 2
MaxJobs == 2
MaxAdds == 4
MaxLines == 3

loadInterval == 60000
ExpirySkewMs == 300000
RefreshedExpiresIn == 3600
TickStep == 60000
Now0 == 100000
BucketMs == 10000
DefaultWindowMs == 60000
DefaultMaxRequests == 100
SESSION_ID_DURATION == 3600000
PROJECT_ID_DURATION == 43200000
MAX_TOOLS == 32
MAX_TOOL_SCHEMA_SIZE == 51200

Procs == 1..2
Creds == {"A", "B", "C"}
NaN == -1
Null == 0

(***************************************************************************)
(* State                                                                   *)
(***************************************************************************)
VARIABLES
  accountsFile,   \* content of data/accounts.json: sequence of credential records
  heap,           \* the credential objects in memory; references are indices
  cachedData,     \* TokenManager.cachedData: sequence of references
  tokens,         \* TokenManager.tokens: sequence of references
  currentIndex,   \* TokenManager.currentIndex (0-based, or NaN)
  lastLoadTime,   \* TokenManager.lastLoadTime
  usageStats,     \* TokenManager.usageStats: refresh_token -> requests
  locked,         \* Mutex.locked of TokenManager.fileMutex
  queue,          \* Mutex.queue of TokenManager.fileMutex (waiting callers)
  procs,          \* the asynchronous calls in flight: position and locals
  now,            \* Date.now()
  nextAt,         \* number of access tokens minted by the identity provider
  calls,          \* number of requests still to come
  hist,           \* history of the pool operations, for the properties
  \* key-manager
  keysCacheIsNull, \* keysCache === null
  keysCache,      \* keysCache: sequence of ApiKey records
  keysFile,       \* content of data/api_keys.json
  kmLocked,       \* Mutex.locked of the key-manager's fileMutex
  kmQueue,        \* Mutex.queue of the key-manager's fileMutex
  autoSaveInterval, \* the auto-save timer is set
  kprocs,         \* the key-manager calls in flight
  khist,          \* history of the limiter's answers, for the properties
  \* route handlers
  hreq,           \* the request: dialect and stream
  hpc,            \* position of the handler
  hlocal,         \* the handler's local variables
  res,            \* the express response: headersSent, ended, frames written
  connected,      \* the client is still connected
  idCache,        \* idCache: api key -> {projectId, projectExpiry, sessionId, sessionExpiry}
  config,         \* config.security
  answers,        \* what the auth middleware did with each request, in order
  body,           \* req.body of the request being translated
  requestBody,    \* the Upstream request body made from it
  reader,         \* generateAssistantResponse reading the Upstream response body
  mutex,          \* a Mutex of utils/mutex.ts and the runExclusive calls on it
  logs            \* admin/log-manager.ts: logBuffer, the logs file and the flushes in flight

poolVars == <<accountsFile, heap, cachedData, tokens, currentIndex, lastLoadTime,
              usageStats, locked, queue, procs, nextAt, calls, hist>>
rateVars == <<keysCacheIsNull, keysCache, keysFile, kmLocked, kmQueue, autoSaveInterval,
              kprocs, khist>>
sseVars == <<hreq, hpc, hlocal, res, connected>>
authVars == <<config, answers>>
transVars == <<body, requestBody>>
vars == <<poolVars, rateVars, sseVars, now, idCache, authVars, transVars, reader, mutex, logs>>

(***************************************************************************)
(* Helpers                                                                 *)
(***************************************************************************)
RECURSIVE DedupRefs(_, _)
DedupRefs(s, acc) ==
  IF s = <<>> THEN acc
  ELSE IF Head(s) = Null \/ (\E k \in 1..Len(acc) : acc[k] = Head(s))
       THEN DedupRefs(Tail(s), acc)
       ELSE DedupRefs(Tail(s), Append(acc, Head(s)))

IndexIn(s, r) == CHOOSE k \in 1..Len(s) : s[k] = r

\* The references reachable from the program, in a fixed order.
LiveRefs(cd, tk, pr) == DedupRefs(cd \o tk \o [q \in Procs |-> pr[q].token], <<>>)

\* Objects no longer referenced are garbage; the remaining ones are renumbered
\* in the order of LiveRefs, so that a state does not depend on allocation order.
Commit(h, cd, tk, pr) ==
  LET order == LiveRefs(cd, tk, pr)
      mp(r) == IF r = Null THEN Null ELSE IndexIn(order, r)
  IN /\ heap' = [k \in 1..Len(order) |-> h[order[k]]]
     /\ cachedData' = [k \in 1..Len(cd) |-> mp(cd[k])]
     /\ tokens' = [k \in 1..Len(tk) |-> mp(tk[k])]
     /\ procs' = [q \in Procs |-> [pr[q] EXCEPT !.token = mp(pr[q].token)]]

\* JSON.parse(data): fresh objects, one per record of the file
ParsedHeap(h, data) == h \o data
ParsedRefs(h, data) == [k \in 1..Len(data) |-> Len(h) + k]

\* JSON.stringify(allTokens): the values of the referenced objects
Stringify(h, refs) == [k \in 1..Len(refs) |-> h[refs[k]]]

\* tokenArray.filter(token => token.enable !== false)
RECURSIVE FilterEnabled(_, _)
FilterEnabled(h, refs) ==
  IF refs = <<>> THEN <<>>
  ELSE IF h[Head(refs)].enable THEN <<Head(refs)>> \o FilterEnabled(h, Tail(refs))
       ELSE FilterEnabled(h, Tail(refs))

RtOf(h, refs) == [k \in 1..Len(refs) |-> h[refs[k]].rt]

\* isExpired(token)
isExpired(t) ==
  IF t.timestamp = 0 \/ t.expires_in = 0 THEN TRUE
  ELSE now >= t.timestamp + t.expires_in * 1000 - ExpirySkewMs

NextIndexSkipping(ci, len) == IF ci = NaN \/ len = 0 THEN NaN ELSE (ci + 2) % len
\* (this.currentIndex + 1) % this.tokens.length; a remainder by 0 is NaN
NextIndex(ci, len) == IF ci = NaN \/ len = 0 THEN NaN ELSE (ci + 1) % len

\* this.tokens[this.currentIndex]; undefined (Null) outside the array
TokenAt(tk, ci) == IF ci # NaN /\ ci >= 0 /\ ci < Len(tk) THEN tk[ci + 1] ELSE Null

\* loadTokens: if (this.currentIndex >= this.tokens.length) this.currentIndex = 0
ClampIndex(ci, len) == IF ci # NaN /\ ci >= len THEN 0 ELSE ci

\* loadTokens: Date.now() - this.lastLoadTime < this.loadInterval && this.tokens.length > 0
CacheFresh == now - lastLoadTime < loadInterval /\ Len(tokens) > 0

recordUsageTwice(us, t) == [us EXCEPT ![t.rt] = @ + 2]
\* recordUsage(token): stats.requests++
recordUsage(us, t) == [us EXCEPT ![t.rt] = @ + 1]

\* allTokens.findIndex(t => t.refresh_token === memToken.refresh_token), 0 for -1
FindByRefresh(h, cd, rt) ==
  IF \E k \in 1..Len(cd) : h[cd[k]].rt = rt
  THEN CHOOSE k \in 1..Len(cd) : h[cd[k]].rt = rt /\ \A j \in 1..(k-1) : h[cd[j]].rt # rt
  ELSE 0

\* saveToFile: this.tokens.forEach(memToken => allTokens[index] = memToken or push)
RECURSIVE SyncTokens(_, _, _)
SyncTokens(h, cd, tk) ==
  IF tk = <<>> THEN cd
  ELSE LET k == FindByRefresh(h, cd, h[Head(tk)].rt)
       IN SyncTokens(h, IF k # 0 THEN [cd EXCEPT ![k] = Head(tk)] ELSE Append(cd, Head(tk)),
                     Tail(tk))

\* this.tokens.find(t => t.access_token === token.access_token), Null if none
FindByAccess(h, tk, at) ==
  IF \E k \in 1..Len(tk) : h[tk[k]].at = at
  THEN tk[CHOOSE k \in 1..Len(tk) : h[tk[k]].at = at /\ \A j \in 1..(k-1) : h[tk[j]].at # at]
  ELSE Null

(***************************************************************************)
(* Mutex (src/utils/mutex.ts): acquire and release                         *)
(***************************************************************************)
\* acquire(): take the free lock, or queue the caller; L is where it continues
AcquireProcs(pr, p, L) ==
  IF locked THEN [pr EXCEPT ![p].pc = "wait", ![p].after = L]
  ELSE [pr EXCEPT ![p].pc = L]
AcquireQueue(p) == IF locked THEN Append(queue, p) ELSE queue

\* release(): hand the lock to the first waiter, or unlock
ReleaseProcs(pr) ==
  IF queue # <<>> THEN [pr EXCEPT ![Head(queue)].pc = pr[Head(queue)].after] ELSE pr
ReleaseQueue == IF queue # <<>> THEN Tail(queue) ELSE queue
ReleaseLocked == queue # <<>>

\* position and local variables of an asynchronous call; Proc0 is no call
Proc0 ==
  [pc |-> "idle", stack |-> <<>>, after |-> "idle", token |-> Null, i |-> 0,
   idx |-> 0, en |-> FALSE, buf |-> <<>>, len0 |-> 0,
   outcome |-> "none", used |-> "-", got |-> "-", co |-> "-"]

\* The continuations that are ready to run: the event loop runs them before it
\* takes the next I/O completion, timer or incoming request.
Ready ==
  {"lt_start", "lt_locked", "gt_loaded", "gt_iter", "gt_refreshed", "gt_disabled",
   "sf_start", "sf_locked", "req_got", "dct_done", "tg_done", "aa_done", "da_done"}
Drained == \A q \in Procs : procs[q].pc \notin Ready

\* call and return of the asynchronous functions; the outermost return ends the call
Call(r, entry, ret) == [r EXCEPT !.pc = entry, !.stack = <<ret>> \o r.stack]
Return(r) ==
  IF Head(r.stack) = "idle" THEN Proc0
  ELSE [r EXCEPT !.pc = Head(r.stack), !.stack = Tail(r.stack)]

(***************************************************************************)
(* Credential pool: initial state (TokenManager constructor)               *)
(***************************************************************************)
\* a credential record of accounts.json; an expired one has no timestamp yet
Credential(c, expired) ==
  [rt |-> c, at |-> <<c, 0>>, timestamp |-> IF expired THEN 0 ELSE Now0,
   expires_in |-> RefreshedExpiresIn, enable |-> TRUE]

Hist0 ==
  [disabledDone |-> {}, idp403Done |-> {}, deleted |-> {}, handed |-> [c \in Creds |-> 0],
   rotation |-> FALSE, changed |-> FALSE, run |-> <<>>, cleanFrom |-> 1]

ConstructPool(order, expiredSet, budget, rotation) ==
  /\ accountsFile = [k \in 1..Len(order) |-> Credential(order[k], order[k] \in expiredSet)]
  /\ heap = accountsFile
  /\ cachedData = [k \in 1..Len(order) |-> k]
  /\ tokens = FilterEnabled(heap, cachedData)
  /\ currentIndex = 0
  /\ lastLoadTime = 0
  /\ usageStats = [c \in Creds |-> 0]
  /\ locked = FALSE
  /\ queue = <<>>
  /\ procs = [p \in Procs |-> Proc0]
  /\ now = Now0
  /\ nextAt = 0
  /\ calls = budget
  /\ hist = [Hist0 EXCEPT !.rotation = rotation]

\* the key-manager before its first use, and no request in a handler
RateOff ==
  /\ keysCacheIsNull = TRUE
  /\ keysCache = <<>>
  /\ keysFile = <<>>
  /\ kmLocked = FALSE
  /\ kmQueue = <<>>
  /\ autoSaveInterval = FALSE
  /\ kprocs = <<>>
  /\ khist = <<>>

\* no request has reached a route handler yet
Res0 ==
  [headersSent |-> FALSE, ended |-> FALSE, sse |-> FALSE, status |-> 200, frames |-> <<>>,
   stop_reason |-> "-"]
Local0 ==
  [hasToolCall |-> FALSE, contentStarted |-> FALSE, parseError |-> FALSE, n |-> 0,
   events |-> <<>>, accumulated |-> <<>>, sentTools |-> 0,
   threwAfter |-> -1]
\* config.security.apiKey of config.json: the admin-wide key
AdminKey == "ADMIN"
\* tools of a request: n tools, of which the last has this type, name and size of its
\* serialized parameters; NoTools: tools = []
NoTools == [n |-> 0, type |-> "function", name |-> "f", schemaSize |-> 2]
\* no request is being translated
NoBody == [dialect |-> "-", messages |-> <<>>]
NoRequestBody == [made |-> FALSE, contents |-> <<>>]
\* no response body is being read
Stream0 ==
  [pc |-> "idle", thinkingStarted |-> FALSE, toolCalls |-> <<>>, seen |-> 0,
   events |-> <<>>, line |-> [valid |-> FALSE, parts |-> <<>>, finishReason |-> FALSE],
   read |-> 0, skipped |-> 0,
   whole |-> [thinkingStarted |-> FALSE, toolCalls |-> <<>>, seen |-> 0, events |-> <<>>],
   pending |-> [is |-> FALSE, line |-> [valid |-> FALSE, parts |-> <<>>, finishReason |-> FALSE]]]
ConfigDefault == config = [apiKey |-> AdminKey]
\* a Mutex after construction: queue = [], locked = false; no caller yet
Mutex0 ==
  [locked |-> FALSE, queue |-> <<>>, pc |-> [c \in 1..MaxCallers |-> "idle"],
   asked |-> <<>>, admitted |-> <<>>, runs |-> 0]
\* the log manager after import: logBuffer = [], no logs file content, no flush
Logs0 ==
  [logBuffer |-> <<>>, file |-> <<>>, jobs |-> <<>>, flushTimer |-> FALSE, count |-> 0,
   added |-> <<>>, limit |-> 0, due |-> <<>>, result |-> <<>>, failed |-> FALSE]
SseOff ==
  /\ reader = Stream0
  /\ mutex = Mutex0
  /\ logs = Logs0
  /\ hreq = [dialect |-> "-", stream |-> FALSE, stop_sequences |-> <<>>, max_tokens |-> 0,
             tools |-> NoTools]
  /\ hpc = "idle"
  /\ hlocal = Local0
  /\ res = Res0
  /\ connected = TRUE
  /\ idCache = <<>>
  /\ answers = <<>>
  /\ body = NoBody
  /\ requestBody = NoRequestBody

\* pool [A, B], each credential valid or due for a refresh
InitPool ==
  /\ ConfigDefault
  /\ \E expiredSet \in SUBSET {"A", "B"} :
        ConstructPool(<<"A", "B">>, expiredSet, MaxCalls, FALSE)
  /\ RateOff
  /\ SseOff

InitSeq ==
  /\ ConfigDefault
  /\ \E expiredSet \in SUBSET {"A", "B"} :
        ConstructPool(<<"A", "B">>, expiredSet, MaxSeqCalls, FALSE)
  /\ RateOff
  /\ SseOff

\* pool [A, B, C], all enabled; B and C valid or due for a refresh
InitRotation ==
  /\ ConfigDefault
  /\ \E expiredSet \in SUBSET {"B", "C"} :
        ConstructPool(<<"A", "B", "C">>, expiredSet, MaxRotCalls, TRUE)
  /\ RateOff
  /\ SseOff

(***************************************************************************)
(* Credential pool: history kept for the properties                        *)
(***************************************************************************)
\* getToken returned credential c
HistReturn(h, c) ==
  [h EXCEPT !.handed[c] = @ + 1, !.run = IF h.rotation THEN Append(@, c) ELSE @]
\* a refresh failed with a status other than 403
HistRefreshFailed(h) == [h EXCEPT !.cleanFrom = IF h.rotation THEN Len(h.run) + 2 ELSE @]
\* the enabled set was changed (disable, toggle, reload with another content)
HistPoolChanged(h) ==
  [h EXCEPT !.run = <<>>, !.cleanFrom = 1, !.changed = IF h.rotation THEN TRUE ELSE @]

(***************************************************************************)
(* Credential pool: one action per stretch of code between two awaits      *)
(***************************************************************************)
NotPool == <<rateVars, sseVars, idCache, transVars, reader, mutex, logs, authVars>>

\* generateAssistantResponse: const token = await tokenManager.getToken()
generateAssistantResponse(p) ==
  /\ Drained
  /\ procs[p].pc = "idle"
  /\ calls > 0
  /\ calls' = calls - 1
  /\ Commit(heap, cachedData, tokens,
            [procs EXCEPT ![p] = [Proc0 EXCEPT !.pc = "lt_start",
                                               !.stack = <<"gt_loaded", "req_got",
                                                           "idle">>]])
  /\ UNCHANGED <<accountsFile, currentIndex, lastLoadTime, usageStats, locked, queue,
                 now, nextAt, hist, NotPool>>

\* loadTokens: the cache test, then fileMutex.runExclusive
loadTokens(p) ==
  /\ procs[p].pc = "lt_start"
  /\ IF CacheFresh
     THEN /\ Commit(heap, cachedData, tokens, [procs EXCEPT ![p] = Return(@)])
          /\ UNCHANGED <<locked, queue>>
     ELSE /\ Commit(heap, cachedData, tokens, AcquireProcs(procs, p, "lt_locked"))
          /\ queue' = AcquireQueue(p)
          /\ locked' = TRUE
  /\ UNCHANGED <<accountsFile, currentIndex, lastLoadTime, usageStats, now, nextAt,
                 calls, hist, NotPool>>

\* loadTokens, inside the lock: the second cache test, then fs.promises.readFile
loadTokensLocked(p) ==
  /\ procs[p].pc = "lt_locked"
  /\ IF CacheFresh
     THEN /\ Commit(heap, cachedData, tokens, ReleaseProcs([procs EXCEPT ![p] = Return(@)]))
          /\ queue' = ReleaseQueue
          /\ locked' = ReleaseLocked
     ELSE /\ Commit(heap, cachedData, tokens, [procs EXCEPT ![p].pc = "lt_read"])
          /\ UNCHANGED <<locked, queue>>
  /\ UNCHANGED <<accountsFile, currentIndex, lastLoadTime, usageStats, now, nextAt,
                 calls, hist, NotPool>>

\* loadTokens, the file was read: replace cachedData and tokens, clamp the cursor
loadTokensRead(p) ==
  /\ Drained
  /\ procs[p].pc = "lt_read"
  /\ LET h2 == ParsedHeap(heap, accountsFile)
         refs == ParsedRefs(heap, accountsFile)
         tk == FilterEnabled(h2, refs)
     IN /\ Commit(h2, refs, tk, ReleaseProcs([procs EXCEPT ![p] = Return(@)]))
        /\ currentIndex' = ClampIndex(currentIndex, Len(tk))
        /\ hist' = IF RtOf(h2, tk) = RtOf(heap, tokens) THEN hist ELSE HistPoolChanged(hist)
  /\ lastLoadTime' = now
  /\ queue' = ReleaseQueue
  /\ locked' = ReleaseLocked
  /\ UNCHANGED <<accountsFile, usageStats, now, nextAt, calls, NotPool>>

\* getToken after loadTokens: if (this.tokens.length === 0) return null; i = 0
getTokenLoaded(p) ==
  /\ procs[p].pc = "gt_loaded"
  /\ IF Len(tokens) = 0
     THEN Commit(heap, cachedData, tokens,
                 [procs EXCEPT ![p] = Return([@ EXCEPT !.token = Null])])
     ELSE Commit(heap, cachedData, tokens,
                 [procs EXCEPT ![p].pc = "gt_iter", ![p].i = 0, ![p].len0 = Len(tokens)])
  /\ UNCHANGED <<accountsFile, currentIndex, lastLoadTime, usageStats, locked, queue,
                 now, nextAt, calls, hist, NotPool>>

\* getToken, one pass of the for loop up to the first await or the return
getTokenIter(p) ==
  /\ procs[p].pc = "gt_iter"
  /\ LET len == Len(tokens)
         ref == TokenAt(tokens, currentIndex)
     IN IF procs[p].i >= len
        THEN \* the loop is over: return null
             /\ Commit(heap, cachedData, tokens,
                       [procs EXCEPT ![p] = Return([@ EXCEPT !.token = Null])])
             /\ UNCHANGED <<currentIndex, usageStats, hist>>
        ELSE IF ref = Null
        THEN \* isExpired(undefined) throws a TypeError: the catch block, not a 403
             /\ Commit(heap, cachedData, tokens,
                       [procs EXCEPT ![p].i = @ + 1, ![p].token = Null])
             /\ currentIndex' = NextIndex(currentIndex, len)
             /\ UNCHANGED <<usageStats, hist>>
        ELSE IF ~isExpired(heap[ref])
        THEN \* advance, recordUsage, return token
             /\ Commit(heap, cachedData, tokens,
                       [procs EXCEPT ![p] = Return([@ EXCEPT !.token = ref,
                                                             !.got = heap[ref].rt])])
             /\ currentIndex' = NextIndex(currentIndex, len)
             /\ usageStats' = recordUsage(usageStats, heap[ref])
             /\ hist' = HistReturn(hist, heap[ref].rt)
        ELSE \* await this.refreshToken(token): the fetch is in flight
             /\ Commit(heap, cachedData, tokens,
                       [q \in Procs |->
                          IF q = p
                          THEN [procs[q] EXCEPT
                                  !.pc = "rt_fetch", !.token = ref,
                                  !.co = IF \E o \in Procs \ {p} :
                                              /\ procs[o].pc = "rt_fetch"
                                              /\ heap[procs[o].token].rt = heap[ref].rt
                                         THEN heap[ref].rt ELSE @]
                          ELSE IF procs[q].pc = "rt_fetch"
                                  /\ heap[procs[q].token].rt = heap[ref].rt
                          THEN [procs[q] EXCEPT !.co = heap[ref].rt]
                          ELSE procs[q]])
             /\ UNCHANGED <<currentIndex, usageStats, hist>>
  /\ UNCHANGED <<accountsFile, lastLoadTime, locked, queue, now, nextAt, calls, NotPool>>

\* refreshToken: the identity provider answered the POST
refreshTokenResponse(p) ==
  /\ Drained
  /\ procs[p].pc = "rt_fetch"
  /\ LET ref == procs[p].token
         len == Len(tokens)
     IN \/ \* response.ok: new access token, then await this.saveToFile()
           /\ nextAt < MaxRefresh
           /\ nextAt' = nextAt + 1
           /\ Commit([heap EXCEPT ![ref].at = <<heap[ref].rt, nextAt + 1>>,
                                  ![ref].expires_in = RefreshedExpiresIn,
                                  ![ref].timestamp = now],
                     cachedData, tokens,
                     [procs EXCEPT ![p] = Call(@, "sf_start", "gt_refreshed")])
           /\ UNCHANGED <<currentIndex, hist>>
        \/ \* status 403: getToken's catch calls disableToken(token)
           /\ Commit([heap EXCEPT ![ref].enable = FALSE], cachedData, tokens,
                     [procs EXCEPT ![p] = Call(Call(@, "sf_start", "gt_disabled"),
                                               "sf_start", "lt_start")])
           /\ UNCHANGED <<currentIndex, nextAt, hist>>
        \/ \* any other failure: getToken's catch advances the cursor
           /\ currentIndex' = NextIndex(currentIndex, len)
           /\ IF len = 0
              THEN Commit(heap, cachedData, tokens,
                          [procs EXCEPT ![p] = Return([@ EXCEPT !.token = Null])])
              ELSE Commit(heap, cachedData, tokens,
                          [procs EXCEPT ![p].pc = "gt_iter", ![p].i = @ + 1])
           /\ hist' = HistRefreshFailed(hist)
           /\ UNCHANGED nextAt
  /\ UNCHANGED <<accountsFile, lastLoadTime, usageStats, locked, queue, now, calls, NotPool>>

\* getToken after a successful refresh: advance, recordUsage, return token
getTokenRefreshed(p) ==
  /\ procs[p].pc = "gt_refreshed"
  /\ LET ref == procs[p].token
     IN /\ Commit(heap, cachedData, tokens,
                  [procs EXCEPT ![p] = Return([@ EXCEPT !.got = heap[ref].rt])])
        /\ usageStats' = recordUsage(usageStats, heap[ref])
        /\ hist' = HistReturn(hist, heap[ref].rt)
  /\ currentIndex' = NextIndex(currentIndex, Len(tokens))
  /\ UNCHANGED <<accountsFile, lastLoadTime, locked, queue, now, nextAt, calls, NotPool>>

\* getToken after disableToken returned: advance, return null on an empty pool
getTokenDisabled(p) ==
  /\ procs[p].pc = "gt_disabled"
  /\ LET c == heap[procs[p].token].rt
     IN hist' = [HistPoolChanged(hist) EXCEPT !.disabledDone = @ \cup {c},
                                              !.idp403Done = @ \cup {c}]
  /\ currentIndex' = NextIndex(currentIndex, Len(tokens))
  /\ IF Len(tokens) = 0
     THEN Commit(heap, cachedData, tokens,
                 [procs EXCEPT ![p] = Return([@ EXCEPT !.token = Null])])
     ELSE Commit(heap, cachedData, tokens,
                 [procs EXCEPT ![p].pc = "gt_iter", ![p].i = @ + 1])
  /\ UNCHANGED <<accountsFile, lastLoadTime, usageStats, locked, queue, now, nextAt,
                 calls, NotPool>>

\* saveToFile: fileMutex.runExclusive
saveToFile(p) ==
  /\ procs[p].pc = "sf_start"
  /\ Commit(heap, cachedData, tokens, AcquireProcs(procs, p, "sf_locked"))
  /\ queue' = AcquireQueue(p)
  /\ locked' = TRUE
  /\ UNCHANGED <<accountsFile, currentIndex, lastLoadTime, usageStats, now, nextAt,
                 calls, hist, NotPool>>

\* saveToFile, inside the lock: copy this.tokens into cachedData, start writeFile
saveToFileLocked(p) ==
  /\ procs[p].pc = "sf_locked"
  /\ LET cd == SyncTokens(heap, cachedData, tokens)
     IN Commit(heap, cd, tokens,
               [procs EXCEPT ![p].pc = "sf_write", ![p].buf = Stringify(heap, cd)])
  /\ UNCHANGED <<accountsFile, currentIndex, lastLoadTime, usageStats, locked, queue,
                 now, nextAt, calls, hist, NotPool>>

\* saveToFile, the file was written: release the lock
saveToFileWritten(p) ==
  /\ Drained
  /\ procs[p].pc = "sf_write"
  /\ accountsFile' = procs[p].buf
  /\ Commit(heap, cachedData, tokens,
            ReleaseProcs([procs EXCEPT ![p] = Return([@ EXCEPT !.buf = <<>>])]))
  /\ queue' = ReleaseQueue
  /\ locked' = ReleaseLocked
  /\ UNCHANGED <<currentIndex, lastLoadTime, usageStats, now, nextAt, calls, hist, NotPool>>

\* generateAssistantResponse after getToken: throw without a token, else fetch(url)
requestGotToken(p) ==
  /\ procs[p].pc = "req_got"
  /\ IF procs[p].token = Null
     THEN Commit(heap, cachedData, tokens,
                 [procs EXCEPT ![p] = Return([@ EXCEPT !.outcome = "no_token"])])
     ELSE Commit(heap, cachedData, tokens,
                 [procs EXCEPT ![p].pc = "req_fetch",
                               ![p].used = heap[procs[p].token].rt])
  /\ UNCHANGED <<accountsFile, currentIndex, lastLoadTime, usageStats, locked, queue,
                 now, nextAt, calls, hist, NotPool>>

\* generateAssistantResponse: the upstream answered the POST
upstreamResponse(p) ==
  /\ Drained
  /\ procs[p].pc = "req_fetch"
  /\ \/ \* response.ok: the body is streamed to the handler
        Commit(heap, cachedData, tokens,
               [procs EXCEPT ![p] = Return([@ EXCEPT !.outcome = "ok", !.token = Null])])
     \/ \* another status: throw new Error('API请求失败 ...')
        Commit(heap, cachedData, tokens,
               [procs EXCEPT ![p] = Return([@ EXCEPT !.outcome = "error", !.token = Null])])
     \/ \* 403: tokenManager.disableCurrentToken(token) is started and not awaited,
        \* and the error is thrown to the handler at once
        LET found == FindByAccess(heap, tokens, heap[procs[p].token].at)
        IN IF found = Null
           THEN Commit(heap, cachedData, tokens,
                       [procs EXCEPT ![p] = Return([@ EXCEPT !.outcome = "forbidden",
                                                             !.token = Null])])
           ELSE Commit([heap EXCEPT ![found].enable = FALSE], cachedData, tokens,
                       [procs EXCEPT ![p] = [@ EXCEPT !.outcome = "forbidden",
                                                      !.token = found,
                                                      !.pc = "sf_start",
                                                      !.stack = <<"lt_start", "dct_done",
                                                                  "idle">>]])
  /\ UNCHANGED <<accountsFile, currentIndex, lastLoadTime, usageStats, locked, queue,
                 now, nextAt, calls, hist, NotPool>>

\* disableCurrentToken: disableToken(found) returned
disableCurrentTokenDone(p) ==
  /\ procs[p].pc = "dct_done"
  /\ hist' = [HistPoolChanged(hist) EXCEPT
                !.disabledDone = @ \cup {heap[procs[p].token].rt}]
  /\ Commit(heap, cachedData, tokens, [procs EXCEPT ![p] = Return([@ EXCEPT !.token = Null])])
  /\ UNCHANGED <<accountsFile, currentIndex, lastLoadTime, usageStats, locked, queue,
                 now, nextAt, calls, NotPool>>

\* toggleAccount(index, enable): fileMutex.runExclusive, then _reloadCache reads the file
toggleAccount(p, index, enable) ==
  /\ Drained
  /\ procs[p].pc = "idle"
  /\ Commit(heap, cachedData, tokens,
            AcquireProcs([procs EXCEPT ![p] = [Proc0 EXCEPT !.idx = index, !.en = enable,
                                                            !.stack = <<"idle">>]],
                         p, "tg_read"))
  /\ queue' = AcquireQueue(p)
  /\ locked' = TRUE
  /\ UNCHANGED <<accountsFile, currentIndex, lastLoadTime, usageStats, now, nextAt,
                 calls, hist, NotPool>>

\* toggleAccount, the file was read: set enable and start _writeCache, or throw
toggleAccountRead(p) ==
  /\ Drained
  /\ procs[p].pc = "tg_read"
  /\ LET h2 == ParsedHeap(heap, accountsFile)
         refs == ParsedRefs(heap, accountsFile)
         k == procs[p].idx + 1
     IN IF procs[p].idx >= 0 /\ procs[p].idx < Len(refs)
        THEN LET h3 == [h2 EXCEPT ![refs[k]].enable = procs[p].en]
             IN /\ Commit(h3, refs, tokens,
                          [procs EXCEPT ![p].pc = "tg_write",
                                        ![p].buf = Stringify(h3, refs),
                                        ![p].used = h3[refs[k]].rt])
                /\ hist' = IF procs[p].en
                           THEN [HistPoolChanged(hist) EXCEPT
                                   !.disabledDone = @ \ {h3[refs[k]].rt},
                                   !.idp403Done = @ \ {h3[refs[k]].rt}]
                           ELSE HistPoolChanged(hist)
                /\ UNCHANGED <<locked, queue>>
        ELSE \* throw new Error('无效的账号索引'); the lock is released
             /\ Commit(h2, refs, tokens, ReleaseProcs([procs EXCEPT ![p] = Proc0]))
             /\ queue' = ReleaseQueue
             /\ locked' = ReleaseLocked
             /\ UNCHANGED hist
  /\ UNCHANGED <<accountsFile, currentIndex, lastLoadTime, usageStats, now, nextAt,
                 calls, NotPool>>

\* toggleAccount, the file was written: release, lastLoadTime = 0, await loadTokens()
toggleAccountWritten(p) ==
  /\ Drained
  /\ procs[p].pc = "tg_write"
  /\ accountsFile' = procs[p].buf
  /\ lastLoadTime' = 0
  /\ Commit(heap, cachedData, tokens,
            ReleaseProcs([procs EXCEPT ![p] = [@ EXCEPT !.pc = "lt_start", !.buf = <<>>,
                                                        !.stack = <<"tg_done", "idle">>]]))
  /\ queue' = ReleaseQueue
  /\ locked' = ReleaseLocked
  /\ UNCHANGED <<currentIndex, usageStats, now, nextAt, calls, hist, NotPool>>

\* toggleAccount returned
toggleAccountDone(p) ==
  /\ procs[p].pc = "tg_done"
  /\ hist' = IF procs[p].en THEN hist
             ELSE [hist EXCEPT !.disabledDone = @ \cup {procs[p].used}]
  /\ Commit(heap, cachedData, tokens, [procs EXCEPT ![p] = Return(@)])
  /\ UNCHANGED <<accountsFile, currentIndex, lastLoadTime, usageStats, locked, queue,
                 now, nextAt, calls, NotPool>>

\* addAccounts: for (const account of accounts) push it unless an element of
\* cachedData has its access_token
RECURSIVE PushNew(_, _)
PushNew(data, accounts) ==
  IF accounts = <<>> THEN data
  ELSE PushNew(IF \E k \in 1..Len(data) : data[k].at = Head(accounts).at
               THEN data ELSE Append(data, Head(accounts)),
               Tail(accounts))

\* this.cachedData.splice(index, 1), index counted from 0
Splice(data, index) == [k \in 1..(Len(data) - 1) |-> IF k <= index THEN data[k] ELSE data[k + 1]]

\* an account of an import file or of an OAuth callback: validateImportedToken passed
Account(c, n) ==
  [rt |-> c, at |-> <<c, n>>, timestamp |-> Now0, expires_in |-> RefreshedExpiresIn,
   enable |-> TRUE]
\* the accounts offered: one whose access_token is in the pool, two others with the
\* refresh_token C and different access_tokens
Accounts == {Account("A", 0), Account("C", -1), Account("C", -2)}
\* the tokens.json files imported
ImportFiles ==
  {<<Account("A", 0), Account("C", -1)>>, <<Account("C", -1), Account("C", -2)>>}

\* addAccount(account) (bulk = FALSE) and addAccounts(accounts) (bulk = TRUE)
addAccounts(p, accounts, bulk) ==
  /\ Drained
  /\ procs[p].pc = "idle"
  /\ calls > 0
  /\ calls' = calls - 1
  /\ Commit(heap, cachedData, tokens,
            AcquireProcs([procs EXCEPT ![p] = [Proc0 EXCEPT !.buf = accounts, !.en = bulk,
                                                            !.stack = <<"idle">>]],
                         p, "aa_read"))
  /\ queue' = AcquireQueue(p)
  /\ locked' = TRUE
  /\ UNCHANGED <<accountsFile, currentIndex, lastLoadTime, usageStats, now, nextAt,
                 hist, NotPool>>

\* addAccount(s), the file was read: push the new accounts and start _writeCache;
\* with nothing to write, release and (addAccount only) await loadTokens()
addAccountsRead(p) ==
  /\ Drained
  /\ procs[p].pc = "aa_read"
  /\ LET data == PushNew(accountsFile, procs[p].buf)
         addedCount == Len(data) - Len(accountsFile)
         h2 == ParsedHeap(heap, data)
         refs == ParsedRefs(heap, data)
     IN IF addedCount > 0
        THEN /\ Commit(h2, refs, tokens,
                       [procs EXCEPT ![p].pc = "aa_write", ![p].buf = data,
                                     ![p].i = addedCount])
             /\ hist' = [hist EXCEPT !.deleted =
                           @ \ {data[k].rt : k \in (Len(accountsFile) + 1)..Len(data)}]
             /\ UNCHANGED <<locked, queue>>
        ELSE /\ Commit(h2, refs, tokens,
                       ReleaseProcs([procs EXCEPT ![p] =
                          IF procs[p].en THEN Proc0
                          ELSE [@ EXCEPT !.pc = "lt_start", !.buf = <<>>,
                                         !.stack = <<"aa_done", "idle">>]]))
             /\ queue' = ReleaseQueue
             /\ locked' = ReleaseLocked
             /\ UNCHANGED hist
  /\ UNCHANGED <<accountsFile, currentIndex, lastLoadTime, usageStats, now, nextAt,
                 calls, NotPool>>

\* addAccount(s), the file was written: release, await loadTokens()
addAccountsWritten(p) ==
  /\ Drained
  /\ procs[p].pc = "aa_write"
  /\ accountsFile' = procs[p].buf
  /\ Commit(heap, cachedData, tokens,
            ReleaseProcs([procs EXCEPT ![p] = [@ EXCEPT !.pc = "lt_start", !.buf = <<>>,
                                                        !.stack = <<"aa_done", "idle">>]]))
  /\ queue' = ReleaseQueue
  /\ locked' = ReleaseLocked
  /\ UNCHANGED <<currentIndex, lastLoadTime, usageStats, now, nextAt, calls, hist, NotPool>>

\* addAccount(s) returned
addAccountsDone(p) ==
  /\ procs[p].pc = "aa_done"
  /\ Commit(heap, cachedData, tokens, [procs EXCEPT ![p] = Return(@)])
  /\ UNCHANGED <<accountsFile, currentIndex, lastLoadTime, usageStats, locked, queue,
                 now, nextAt, calls, hist, NotPool>>

\* deleteAccount(index) up to fileMutex.runExclusive
deleteAccount(p, index) ==
  /\ Drained
  /\ procs[p].pc = "idle"
  /\ calls > 0
  /\ calls' = calls - 1
  /\ Commit(heap, cachedData, tokens,
            AcquireProcs([procs EXCEPT ![p] = [Proc0 EXCEPT !.idx = index,
                                                            !.stack = <<"idle">>]],
                         p, "da_read"))
  /\ queue' = AcquireQueue(p)
  /\ locked' = TRUE
  /\ UNCHANGED <<accountsFile, currentIndex, lastLoadTime, usageStats, now, nextAt,
                 hist, NotPool>>

\* deleteAccount, the file was read: splice and start _writeCache, or throw
deleteAccountRead(p) ==
  /\ Drained
  /\ procs[p].pc = "da_read"
  /\ IF procs[p].idx >= 0 /\ procs[p].idx < Len(accountsFile)
     THEN LET data == Splice(accountsFile, procs[p].idx)
          IN /\ Commit(ParsedHeap(heap, data), ParsedRefs(heap, data), tokens,
                       [procs EXCEPT ![p].pc = "da_write", ![p].buf = data,
                                     ![p].used = accountsFile[procs[p].idx + 1].rt])
             /\ UNCHANGED <<locked, queue>>
     ELSE \* throw new Error('无效的账号索引'); the lock is released
          /\ Commit(ParsedHeap(heap, accountsFile), ParsedRefs(heap, accountsFile), tokens,
                    ReleaseProcs([procs EXCEPT ![p] = Proc0]))
          /\ queue' = ReleaseQueue
          /\ locked' = ReleaseLocked
  /\ UNCHANGED <<accountsFile, currentIndex, lastLoadTime, usageStats, now, nextAt,
                 calls, hist, NotPool>>

\* deleteAccount, the file was written: release, await loadTokens()
deleteAccountWritten(p) ==
  /\ Drained
  /\ procs[p].pc = "da_write"
  /\ accountsFile' = procs[p].buf
  /\ Commit(heap, cachedData, tokens,
            ReleaseProcs([procs EXCEPT ![p] = [@ EXCEPT !.pc = "lt_start", !.buf = <<>>,
                                                        !.stack = <<"da_done", "idle">>]]))
  /\ queue' = ReleaseQueue
  /\ locked' = ReleaseLocked
  /\ UNCHANGED <<currentIndex, lastLoadTime, usageStats, now, nextAt, calls, hist, NotPool>>

\* deleteAccount returned
deleteAccountDone(p) ==
  /\ procs[p].pc = "da_done"
  /\ hist' = [hist EXCEPT !.deleted =
                IF \E k \in 1..Len(accountsFile) : accountsFile[k].rt = procs[p].used
                THEN @ ELSE @ \cup {procs[p].used}]
  /\ Commit(heap, cachedData, tokens, [procs EXCEPT ![p] = Return(@)])
  /\ UNCHANGED <<accountsFile, currentIndex, lastLoadTime, usageStats, locked, queue,
                 now, nextAt, calls, NotPool>>

\* time passes
Tick ==
  /\ Drained
  /\ now < Now0 + MaxTicks * TickStep
  /\ now' = now + TickStep
  /\ UNCHANGED <<accountsFile, heap, cachedData, tokens, currentIndex, lastLoadTime,
                 usageStats, locked, queue, procs, nextAt, calls, hist, NotPool>>

\* the steps of one request: getToken, the refresh, the upstream call
RequestStep(p) ==
  \/ generateAssistantResponse(p)
  \/ loadTokens(p)
  \/ loadTokensLocked(p)
  \/ loadTokensRead(p)
  \/ getTokenLoaded(p)
  \/ getTokenIter(p)
  \/ refreshTokenResponse(p)
  \/ getTokenRefreshed(p)
  \/ getTokenDisabled(p)
  \/ saveToFile(p)
  \/ saveToFileLocked(p)
  \/ saveToFileWritten(p)
  \/ requestGotToken(p)
  \/ upstreamResponse(p)
  \/ disableCurrentTokenDone(p)

\* the steps of the admin route POST /tokens/toggle
ToggleStep(p) ==
  \/ \E index \in 0..2, enable \in BOOLEAN : toggleAccount(p, index, enable)
  \/ toggleAccountRead(p)
  \/ toggleAccountWritten(p)
  \/ toggleAccountDone(p)

\* the steps of the admin routes that add, import and delete accounts
AccountStep(p) ==
  \/ \E account \in Accounts : addAccounts(p, <<account>>, FALSE)
  \/ \E accounts \in ImportFiles : addAccounts(p, accounts, TRUE)
  \/ addAccountsRead(p)
  \/ addAccountsWritten(p)
  \/ addAccountsDone(p)
  \/ \E index \in 0..2 : deleteAccount(p, index)
  \/ deleteAccountRead(p)
  \/ deleteAccountWritten(p)
  \/ deleteAccountDone(p)

\* concurrent requests
NextPool == (\E p \in Procs : RequestStep(p)) \/ Tick
SpecPool == InitPool /\ [][NextPool]_vars

\* one request or admin call at a time
NextSeq == RequestStep(1) \/ ToggleStep(1) \/ Tick
SpecSeq == InitSeq /\ [][NextSeq]_vars

\* one getToken caller at a time, no admin mutation
NextRotation == RequestStep(1) \/ Tick
SpecRotation == InitRotation /\ [][NextRotation]_vars

\* pool [A, B], B valid or due for a refresh: requests and the admin calls on the
\* accounts, one at a time
InitAccounts ==
  /\ ConfigDefault
  /\ \E expiredSet \in SUBSET {"B"} :
        ConstructPool(<<"A", "B">>, expiredSet, MaxAccountCalls, FALSE)
  /\ RateOff
  /\ SseOff
NextAccounts ==
  \/ RequestStep(1)
  \/ \E enable \in BOOLEAN : toggleAccount(1, 1, enable)
  \/ toggleAccountRead(1)
  \/ toggleAccountWritten(1)
  \/ toggleAccountDone(1)
  \/ AccountStep(1)
  \/ Tick
SpecAccounts == InitAccounts /\ [][NextAccounts]_vars

(***************************************************************************)
(* Key manager: the rate limiter (checkRateLimit) and its initialisation    *)
(***************************************************************************)
NotRate == <<poolVars, sseVars, idCache, transVars, reader, mutex, logs, authVars>>

\* the instants at which Date.now() is read
Instants ==
  {Now0 + d : d \in {0, 1, 5000, 9999, 10000, 15000, 20000, 24999, 25000, 30000}}

\* the policies stored with the key
Policies ==
  [enabled : BOOLEAN, maxRequests : {1, 2}, windowMs : {1000, 20000}]

ApiKey(k, policy) == [key |-> k, rateLimit |-> policy, usage |-> <<>>, requests |-> 0]

KProc0 ==
  [pc |-> "idle", key |-> "-", id |-> 0, conc |-> {}, after |-> "crl_body", mw |-> FALSE,
   buf |-> <<>>]

\* an empty credential pool: the key manager does not use it
PoolOff == ConstructPool(<<>>, {}, 0, FALSE)

\* api_keys.json holds the key K, keysCache is not loaded yet; budget requests will
\* pass the middleware
StartRate(budget, policies) ==
  /\ ConstructPool(<<>>, {}, budget, FALSE)
  /\ SseOff
  /\ keysCacheIsNull = TRUE
  /\ keysCache = <<>>
  /\ \E policy \in policies : keysFile = <<ApiKey("K", policy)>>
  /\ kmLocked = FALSE
  /\ kmQueue = <<>>
  /\ autoSaveInterval = FALSE
  /\ kprocs = [p \in Procs |-> KProc0]
  /\ khist = <<>>

InitRate == StartRate(MaxChecks, Policies) /\ ConfigDefault

\* the continuations of the key manager that are ready to run
KDrained ==
  \A q \in Procs :
    kprocs[q].pc \notin {"ei_locked", "crl_body", "val_body", "mw_valid", "mw_invalid",
                         "mw_checked", "ck_body", "dk_body", "uk_body", "pk_locked"}

\* keysCache.find(k => k.key === keyToCheck): its position, 0 if none
FindKey(cache, k) ==
  IF \E j \in 1..Len(cache) : cache[j].key = k
  THEN CHOOSE j \in 1..Len(cache) : cache[j].key = k /\ \A i \in 1..(j - 1) : cache[i].key # k
  ELSE 0

\* x || d
OrDefault(x, d) == IF x = 0 THEN d ELSE x

KeptAll(usage, cutoffTime) == usage
\* the buckets that stay: parseInt(timestamp) >= cutoffTime
Kept(usage, cutoffTime) ==
  [b \in {t \in DOMAIN usage : t >= cutoffTime} |-> usage[b]]

\* requestCount: the sum of the counts of the buckets that stay
RECURSIVE SumCounts(_, _)
SumCounts(usage, S) ==
  IF S = {} THEN 0
  ELSE LET b == CHOOSE t \in S : TRUE IN usage[b] + SumCounts(usage, S \ {b})

\* the number Infinity: it absorbs every finite addend
Infinity == 2000000000
IsInfinite(x) == x >= Infinity \div 2

\* Math.min(...keys): Infinity for no argument
MinOf(S) == IF S = {} THEN Infinity ELSE CHOOSE m \in S : \A t \in S : m <= t

\* Math.ceil(x / 1000)
CeilSeconds(x) == IF IsInfinite(x) THEN Infinity ELSE -((-x) \div 1000)

OverLimitLate(requestCount, maxRequests) == requestCount > maxRequests
\* if (requestCount >= maxRequests)
OverLimit(requestCount, maxRequests) == requestCount >= maxRequests

BucketExact(t) == t
\* Math.floor(now / 10000) * 10000
Bucket(t) == (t \div BucketMs) * BucketMs

IncrementLost(usage, minute) == usage
IncrementTwice(usage, minute) ==
  [b \in DOMAIN usage \cup {minute} |->
     IF b = minute THEN (IF minute \in DOMAIN usage THEN usage[minute] ELSE 0) + 2
     ELSE usage[b]]
\* key.usage[minute] = (key.usage[minute] || 0) + 1
Increment(usage, minute) ==
  [b \in DOMAIN usage \cup {minute} |->
     IF b = minute THEN (IF minute \in DOMAIN usage THEN usage[minute] ELSE 0) + 1
     ELSE usage[b]]

\* the calls in flight
InFlight == {kprocs[q].id : q \in {r \in Procs : kprocs[r].id # 0}}

\* await ensureInitialized() by process p, which goes on at kp[p].after
EnsureInitialized(kp, p) ==
  IF ~keysCacheIsNull
  THEN /\ kprocs' = [kp EXCEPT ![p].pc = kp[p].after]
       /\ UNCHANGED <<kmLocked, kmQueue>>
  ELSE IF kmLocked
  THEN /\ kprocs' = [kp EXCEPT ![p].pc = "ei_wait"]
       /\ kmQueue' = Append(kmQueue, p)
       /\ UNCHANGED kmLocked
  ELSE /\ kprocs' = [kp EXCEPT ![p].pc = "ei_locked"]
       /\ kmLocked' = TRUE
       /\ UNCHANGED kmQueue

\* a call of checkRateLimit(k) by process p begins; mw: the middleware awaits it
StartCheck(p, k, mw) ==
  LET id == Len(khist) + Cardinality(InFlight) + 1
      started == [q \in Procs |->
                    IF q = p THEN [pc |-> "start", key |-> k, id |-> id, conc |-> InFlight,
                                   after |-> "crl_body", mw |-> mw, buf |-> <<>>]
                    ELSE IF kprocs[q].pc # "idle"
                    THEN [kprocs[q] EXCEPT !.conc = @ \cup {id}]
                    ELSE kprocs[q]]
  IN EnsureInitialized(started, p)

\* checkRateLimit(keyToCheck): await ensureInitialized(), up to its first await
checkRateLimit(p, k) ==
  /\ KDrained
  /\ kprocs[p].pc = "idle"
  /\ calls > 0
  /\ calls' = calls - 1
  /\ StartCheck(p, k, FALSE)
  /\ UNCHANGED <<keysCacheIsNull, keysCache, keysFile, autoSaveInterval, khist, now,
                 accountsFile, heap, cachedData, tokens, currentIndex, lastLoadTime,
                 usageStats, locked, queue, procs, nextAt, hist, sseVars, idCache, transVars, reader, mutex, logs, authVars>>

\* release() of the key manager's fileMutex
KmRelease(kp) ==
  /\ kprocs' = IF kmQueue # <<>>
               THEN [kp EXCEPT ![Head(kmQueue)].pc = IF @ = "pk_wait" THEN "pk_locked"
                                                     ELSE "ei_locked"]
               ELSE kp
  /\ kmQueue' = IF kmQueue # <<>> THEN Tail(kmQueue) ELSE kmQueue
  /\ kmLocked' = (kmQueue # <<>>)

\* ensureInitialized, inside the lock: the second test, then ensureDataDir and readFile
ensureInitializedLocked(p) ==
  /\ kprocs[p].pc = "ei_locked"
  /\ IF ~keysCacheIsNull
     THEN KmRelease([kprocs EXCEPT ![p].pc = kprocs[p].after])
     ELSE /\ kprocs' = [kprocs EXCEPT ![p].pc = "ei_read"]
          /\ UNCHANGED <<kmLocked, kmQueue>>
  /\ UNCHANGED <<keysCacheIsNull, keysCache, keysFile, autoSaveInterval, khist, now, NotRate>>

\* ensureInitialized, the file was read: keysCache = JSON.parse(data), the timer is set
ensureInitializedRead(p) ==
  /\ KDrained
  /\ kprocs[p].pc = "ei_read"
  /\ keysCache' = keysFile
  /\ keysCacheIsNull' = FALSE
  /\ autoSaveInterval' = TRUE
  /\ KmRelease([kprocs EXCEPT ![p].pc = kprocs[p].after])
  /\ UNCHANGED <<keysFile, khist, now, NotRate>>

\* checkRateLimit after ensureInitialized: one stretch without an await
checkRateLimitBody(p) ==
  /\ kprocs[p].pc = "crl_body"
  /\ LET j == FindKey(keysCache, kprocs[p].key)
         answer(a) == Append(khist, [id |-> kprocs[p].id, conc |-> kprocs[p].conc,
                                     key |-> kprocs[p].key, at |-> now] @@ a)
     IN IF j = 0
        THEN /\ khist' = answer([allowed |-> FALSE, limited |-> FALSE, remaining |-> 0,
                                 resetIn |-> 0])
             /\ UNCHANGED keysCache
        ELSE IF ~keysCache[j].rateLimit.enabled
        THEN /\ khist' = answer([allowed |-> TRUE, limited |-> FALSE, remaining |-> 0,
                                 resetIn |-> 0])
             /\ UNCHANGED keysCache
        ELSE LET windowMs == OrDefault(keysCache[j].rateLimit.windowMs, DefaultWindowMs)
                 maxRequests == OrDefault(keysCache[j].rateLimit.maxRequests,
                                          DefaultMaxRequests)
                 usage == Kept(keysCache[j].usage, now - windowMs)
                 requestCount == SumCounts(usage, DOMAIN usage)
             IN IF OverLimit(requestCount, maxRequests)
                THEN /\ khist' = answer([allowed |-> FALSE, limited |-> TRUE, remaining |-> 0,
                                         resetIn |-> CeilSeconds(MinOf(DOMAIN usage)
                                                                 + windowMs - now)])
                     /\ keysCache' = [keysCache EXCEPT ![j].usage = usage]
                ELSE /\ khist' = answer([allowed |-> TRUE, limited |-> TRUE,
                                         remaining |-> maxRequests - requestCount - 1,
                                         resetIn |-> 0])
                     /\ keysCache' = [keysCache EXCEPT
                                        ![j].usage = Increment(usage, Bucket(now))]
  /\ kprocs' = [kprocs EXCEPT ![p] = IF kprocs[p].mw THEN [@ EXCEPT !.pc = "mw_checked"]
                                      ELSE KProc0]
  /\ UNCHANGED <<keysCacheIsNull, keysFile, kmLocked, kmQueue, autoSaveInterval, now, NotRate>>

\* time passes between two events
Elapse ==
  /\ KDrained
  /\ \E t \in Instants : t > now /\ now' = t
  /\ UNCHANGED <<rateVars, NotRate>>

NextRate ==
  \/ \E p \in Procs, k \in {"K", "X"} : checkRateLimit(p, k)
  \/ \E p \in Procs : ensureInitializedLocked(p)
  \/ \E p \in Procs : ensureInitializedRead(p)
  \/ \E p \in Procs : checkRateLimitBody(p)
  \/ Elapse
SpecRate == InitRate /\ [][NextRate]_vars

\* policies as api_keys.json can hold them: the cap is read from the file unchecked
StoredPolicies ==
  [enabled : {TRUE}, maxRequests : {-1, 0, 1}, windowMs : {1000, 20000}]
InitStored == StartRate(MaxChecks, StoredPolicies) /\ ConfigDefault
SpecStored == InitStored /\ [][NextRate]_vars

\* the scenario "deny with reset": cap 2, window 60 s, calls at t, t + 1 s, t + 2 s
\* and t + 61 s, for several positions of t in its 10-second bucket
DenyPolicy == [enabled |-> TRUE, maxRequests |-> 2, windowMs |-> 60000]
DenyOffsets == {0, 1, 999, 1000, 5000, 9999}
DenyDelays == {0, 1000, 2000, 61000}
InitDeny == StartRate(MaxDenyChecks, {DenyPolicy}) /\ ConfigDefault

ElapseDeny ==
  /\ KDrained
  /\ \E o \in DenyOffsets, d \in DenyDelays : Now0 + o + d > now /\ now' = Now0 + o + d
  /\ UNCHANGED <<rateVars, NotRate>>

NextDeny ==
  \/ \E p \in Procs : checkRateLimit(p, "K")
  \/ \E p \in Procs : ensureInitializedLocked(p)
  \/ \E p \in Procs : ensureInitializedRead(p)
  \/ \E p \in Procs : checkRateLimitBody(p)
  \/ ElapseDeny
SpecDeny == InitDeny /\ [][NextDeny]_vars

(***************************************************************************)
(* Route handlers: POST /chat/completions and POST /messages               *)
(***************************************************************************)
NotSse == <<poolVars, rateVars, now, idCache, authVars, transVars, reader, mutex, logs>>

InitSse ==
  /\ ConfigDefault
  /\ PoolOff
  /\ RateOff
  /\ SseOff

\* express: res.write, res.end, res.status(code).json(body)
Write(r, frame) == [r EXCEPT !.headersSent = TRUE, !.frames = Append(@, frame)]
End(r) == [r EXCEPT !.headersSent = TRUE, !.ended = TRUE]
Json(r, code) ==
  [r EXCEPT !.headersSent = TRUE, !.ended = TRUE, !.status = code, !.frames = Append(@, "json")]
\* res.setHeader('Content-Type', 'text/event-stream')
EventStream(r) == [r EXCEPT !.sse = TRUE]

RECURSIVE WriteAll(_, _)
WriteAll(r, frames) ==
  IF frames = <<>> THEN r ELSE WriteAll(Write(r, Head(frames)), Tail(frames))

\* what the callback of generateAssistantResponse receives
\* (thinking_empty is a thinking part without text: its content is '')
\* text_stop is a text that ends with the stop sequence END
Events ==
  {"text", "text_stop", "thinking", "thinking_empty", "tool_calls", "tool_calls_bad_arguments"}
ToolEvents == {"tool_calls", "tool_calls_bad_arguments"}
\* data.content of an event: the pieces of text the handlers accumulate
Content(data) ==
  IF data = "text" THEN <<"text">>
  ELSE IF data = "text_stop" THEN <<"END">>
  ELSE IF data = "thinking" THEN <<"<think>">>
  ELSE <<>>
\* the stop_sequences and max_tokens a request to /messages may carry (0: none)
StopSequences == {<<>>, <<"END">>}
MaxTokens == {0, 2}
\* accumulated.endsWith(seq)
endsWith(accumulated, seq) == accumulated # <<>> /\ accumulated[Len(accumulated)] = seq
\* countTokensSafe of the output message: one token for each piece
OutputTokens(accumulated) == Len(accumulated)

\* stop_reason of /messages
StopReason(toolCalls, stop_sequences, accumulated, max_tokens) ==
  IF toolCalls THEN "tool_use"
  ELSE IF Len(stop_sequences) > 0
  THEN IF \E i \in 1..Len(stop_sequences) : endsWith(accumulated, stop_sequences[i])
       THEN "stop_sequence"
       ELSE "end_turn"
  ELSE IF max_tokens # 0 /\ OutputTokens(accumulated) >= max_tokens
  THEN "max_tokens"
  ELSE "end_turn"

\* finish_reason: hasToolCall ? 'tool_calls' : 'stop'
FinishReasonStop(hasToolCall) == "finish_stop"
FinishReason(hasToolCall) == IF hasToolCall THEN "finish_tool_calls" ELSE "finish_stop"

\* the tools a request may carry
ToolsInputs ==
  {NoTools,
   [NoTools EXCEPT !.n = 1],
   [NoTools EXCEPT !.n = MAX_TOOLS],
   [NoTools EXCEPT !.n = MAX_TOOLS + 1],
   [NoTools EXCEPT !.n = 1, !.schemaSize = MAX_TOOL_SCHEMA_SIZE],
   [NoTools EXCEPT !.n = 1, !.schemaSize = MAX_TOOL_SCHEMA_SIZE + 1],
   [NoTools EXCEPT !.n = 1, !.type = "other"],
   [NoTools EXCEPT !.n = 1, !.name = ""]}

\* sanitizeTool of the last tool: "null", "throw" or "tool"
sanitizeTool(tool) ==
  IF tool.type # "function" THEN "null"
  ELSE IF tool.name = "" THEN "null"
  ELSE IF tool.schemaSize > MAX_TOOL_SCHEMA_SIZE THEN "throw"
  ELSE "tool"

\* convertOpenAIToolsToAntigravity: the number of tools sent upstream, -1 if it throws
convertOpenAIToolsToAntigravity(tools) ==
  IF tools.n = 0 THEN 0
  ELSE IF tools.n > MAX_TOOLS THEN -1
  ELSE IF sanitizeTool(tools) = "throw" THEN -1
  ELSE IF sanitizeTool(tools) = "null" THEN tools.n - 1
  ELSE tools.n

\* the catch block of a route handler
Catch(r, dialect, stream) ==
  IF r.headersSent THEN r
  ELSE IF dialect = "openai"
  THEN IF stream
       THEN End(WriteAll(EventStream(r), <<"content_delta", "finish_stop", "[DONE]">>))
       ELSE Json(r, 500)
  ELSE IF stream THEN End(Write(EventStream(r), "error"))
  ELSE Json(r, 500)

\* POST /chat/completions up to await generateAssistantResponse(...)
postChatCompletions(messages, stream, tools) ==
  /\ hpc = "idle"
  /\ hreq' = [dialect |-> "openai", stream |-> stream, stop_sequences |-> <<>>,
               max_tokens |-> 0, tools |-> tools]
  /\ IF ~messages
     THEN /\ res' = Json(res, 400)
          /\ hpc' = "done"
          /\ hlocal' = Local0
     ELSE IF convertOpenAIToolsToAntigravity(tools) = -1
     THEN /\ res' = Catch(res, "openai", stream)
          /\ hpc' = "done"
          /\ hlocal' = [Local0 EXCEPT !.threwAfter = 0]
     ELSE /\ res' = IF stream THEN EventStream(res) ELSE res
          /\ hpc' = "generating"
          /\ hlocal' = [Local0 EXCEPT !.sentTools = convertOpenAIToolsToAntigravity(tools)]
  /\ UNCHANGED <<connected, NotSse>>

\* POST /messages up to await generateAssistantResponse(...)
postMessages(messages, stream, stop_sequences, max_tokens, tools) ==
  /\ hpc = "idle"
  /\ hreq' = [dialect |-> "anthropic", stream |-> stream, stop_sequences |-> stop_sequences,
               max_tokens |-> max_tokens, tools |-> tools]
  /\ IF ~messages
     THEN /\ res' = Json(res, 400)
          /\ hpc' = "done"
          /\ hlocal' = Local0
     ELSE IF convertOpenAIToolsToAntigravity(tools) = -1
     THEN /\ res' = Catch(res, "anthropic", stream)
          /\ hpc' = "done"
          /\ hlocal' = [Local0 EXCEPT !.threwAfter = 0]
     ELSE /\ res' = IF stream THEN Write(EventStream(res), "message_start") ELSE res
          /\ hpc' = "generating"
          /\ hlocal' = [Local0 EXCEPT !.sentTools = convertOpenAIToolsToAntigravity(tools)]
  /\ UNCHANGED <<connected, NotSse>>

\* the callback passed to generateAssistantResponse, called with one event
callback(data) ==
  /\ hpc = "generating"
  /\ hlocal.n < MaxEvents
  /\ LET l == [hlocal EXCEPT !.n = @ + 1, !.events = Append(@, data),
                             !.accumulated = @ \o Content(data)]
     IN IF ~hreq.stream
        THEN \* the content and the tool calls are accumulated; /messages parses later
             /\ hlocal' = [l EXCEPT !.hasToolCall = @ \/ data \in ToolEvents,
                                    !.parseError = (hreq.dialect = "anthropic"
                                                    /\ data = "tool_calls_bad_arguments")
                                                   \/ (@ /\ data \notin ToolEvents)]
             /\ UNCHANGED res
        ELSE IF hreq.dialect = "openai"
        THEN IF data \in ToolEvents
             THEN /\ hlocal' = [l EXCEPT !.hasToolCall = TRUE]
                  /\ res' = Write(res, "tool_calls_delta")
             ELSE IF data # "thinking_empty"
             THEN /\ hlocal' = l
                  /\ res' = Write(res, "content_delta")
             ELSE /\ hlocal' = l
                  /\ UNCHANGED res
        ELSE IF Content(data) # <<>>
        THEN /\ hlocal' = [l EXCEPT !.contentStarted = TRUE]
             /\ res' = WriteAll(res, IF hlocal.contentStarted
                                     THEN <<"content_block_delta:0">>
                                     ELSE <<"content_block_start:0",
                                            "content_block_delta:0">>)
        ELSE IF data = "thinking_empty"
        THEN /\ hlocal' = l
             /\ UNCHANGED res
        ELSE IF data = "tool_calls_bad_arguments"
        THEN /\ hlocal' = [l EXCEPT !.hasToolCall = TRUE, !.parseError = TRUE]
             /\ UNCHANGED res
        ELSE /\ hlocal' = [l EXCEPT !.hasToolCall = TRUE]
             /\ res' = WriteAll(res, <<"content_block_start:1", "content_block_stop:1">>)
  /\ UNCHANGED <<hreq, hpc, connected, NotSse>>

\* the frames of /messages carry the index of their content block after the colon:
\* 0 for the text block, idx + 1 for the tool_use blocks; an event tool_calls of
\* the model carries one tool call, idx = 0

\* generateAssistantResponse returned: the rest of the try block
generateReturned ==
  /\ hpc = "generating"
  /\ hpc' = "done"
  /\ res' =
       IF hreq.dialect = "openai"
       THEN IF hreq.stream
            THEN End(WriteAll(res, <<FinishReason(hlocal.hasToolCall), "usage", "[DONE]">>))
            ELSE Json(res, 200)
       ELSE IF hreq.stream
       THEN IF hlocal.parseError
            THEN IF ~res.headersSent THEN Json(res, 400) ELSE End(Write(res, "error"))
            ELSE [End(WriteAll(res, (IF hlocal.contentStarted THEN <<"content_block_stop:0">>
                                     ELSE <<>>) \o <<"message_delta", "message_stop">>))
                    EXCEPT !.stop_reason = StopReason(hlocal.hasToolCall, hreq.stop_sequences,
                                                      hlocal.accumulated, hreq.max_tokens)]
       ELSE IF hlocal.parseError THEN Json(res, 400)
       ELSE [Json(res, 200)
               EXCEPT !.stop_reason = StopReason(hlocal.hasToolCall, hreq.stop_sequences,
                                                 hlocal.accumulated, hreq.max_tokens)]
  /\ UNCHANGED <<hreq, hlocal, connected, NotSse>>

\* generateAssistantResponse threw (no token, upstream status, read error): the catch
\* block; threwAfter keeps the number of frames written before the error
generateThrew ==
  /\ hpc = "generating"
  /\ hpc' = "done"
  /\ res' = Catch(res, hreq.dialect, hreq.stream)
  /\ hlocal' = [hlocal EXCEPT !.threwAfter = Len(res.frames)]
  /\ UNCHANGED <<hreq, connected, NotSse>>

\* the client closes the connection
clientDisconnects ==
  /\ connected
  /\ hpc # "idle"
  /\ connected' = FALSE
  /\ UNCHANGED <<hreq, hpc, hlocal, res, NotSse>>

NextSse ==
  \/ \E messages, stream \in BOOLEAN, tools \in ToolsInputs :
       postChatCompletions(messages, stream, tools)
  \/ \E messages, stream \in BOOLEAN, stop_sequences \in StopSequences, max_tokens \in MaxTokens,
        tools \in ToolsInputs :
       postMessages(messages, stream, stop_sequences, max_tokens, tools)
  \/ \E data \in Events : callback(data)
  \/ generateReturned
  \/ generateThrew
  \/ clientDisconnects
SpecSse == InitSse /\ [][NextSse]_vars

(***************************************************************************)
(* The API key and rate limit middleware (src/server/index.ts)             *)
(***************************************************************************)
\* the keys a request may carry: the admin-wide key, a key of the store, an unknown
\* key, none
ProvidedKeys == {AdminKey, "K", "X", ""}
AuthPolicies == [enabled : BOOLEAN, maxRequests : {1}, windowMs : {20000}]

InitAuth ==
  /\ StartRate(MaxAuthCalls, AuthPolicies)
  /\ config \in {[apiKey |-> ""], [apiKey |-> AdminKey]}

timingSafeEqualAlways(a, b) == TRUE
\* timingSafeEqual(a, b): the same length and the same bytes
timingSafeEqual(a, b) == a = b

Answer(providedKey, status, via, check, reset) ==
  [op |-> "request", key |-> providedKey, status |-> status, via |-> via, check |-> check,
   reset_in_seconds |-> reset]

\* the middleware up to its first await
authMiddleware(p, needsAuth, providedKey) ==
  /\ KDrained
  /\ kprocs[p].pc = "idle"
  /\ calls > 0
  /\ calls' = calls - 1
  /\ IF ~needsAuth
     THEN /\ answers' = Append(answers, Answer(providedKey, "next", "open", 0, 0))
          /\ UNCHANGED <<kprocs, kmLocked, kmQueue>>
     ELSE IF config.apiKey = ""
     THEN /\ answers' = Append(answers, Answer(providedKey, "401", "unconfigured", 0, 0))
          /\ UNCHANGED <<kprocs, kmLocked, kmQueue>>
     ELSE IF timingSafeEqual(providedKey, config.apiKey)
     THEN /\ answers' = Append(answers, Answer(providedKey, "next", "admin", 0, 0))
          /\ UNCHANGED <<kprocs, kmLocked, kmQueue>>
     ELSE \* await validateKey(providedKey): await ensureInitialized()
          /\ EnsureInitialized([kprocs EXCEPT ![p] = [KProc0 EXCEPT !.pc = "start",
                                                                    !.key = providedKey,
                                                                    !.after = "val_body",
                                                                    !.mw = TRUE]], p)
          /\ UNCHANGED answers
  /\ UNCHANGED <<keysCacheIsNull, keysCache, keysFile, autoSaveInterval, khist, config,
                 accountsFile, heap, cachedData, tokens, currentIndex, lastLoadTime,
                 usageStats, locked, queue, procs, nextAt, hist, sseVars, idCache, transVars, reader, mutex, logs, now>>

\* validateKey after ensureInitialized
validateKeyBody(p) ==
  /\ kprocs[p].pc = "val_body"
  /\ LET j == FindKey(keysCache, kprocs[p].key)
     IN IF j # 0
        THEN /\ keysCache' = [keysCache EXCEPT ![j].requests = @ + 1]
             /\ kprocs' = [kprocs EXCEPT ![p].pc = "mw_valid"]
        ELSE /\ kprocs' = [kprocs EXCEPT ![p].pc = "mw_invalid"]
             /\ UNCHANGED keysCache
  /\ UNCHANGED <<keysCacheIsNull, keysFile, kmLocked, kmQueue, autoSaveInterval, khist, calls,
                 authVars, accountsFile, heap, cachedData, tokens, currentIndex, lastLoadTime,
                 usageStats, locked, queue, procs, nextAt, hist, sseVars, idCache, transVars, reader, mutex, logs, now>>

\* the middleware after validateKey: 401, or await checkRateLimit(providedKey)
authValidated(p) ==
  /\ kprocs[p].pc \in {"mw_valid", "mw_invalid"}
  /\ IF kprocs[p].pc = "mw_invalid"
     THEN /\ answers' = Append(answers, Answer(kprocs[p].key, "401", "key", 0, 0))
          /\ kprocs' = [kprocs EXCEPT ![p] = KProc0]
          /\ UNCHANGED <<kmLocked, kmQueue>>
     ELSE /\ StartCheck(p, kprocs[p].key, TRUE)
          /\ UNCHANGED answers
  /\ UNCHANGED <<keysCacheIsNull, keysCache, keysFile, autoSaveInterval, khist, calls, config,
                 accountsFile, heap, cachedData, tokens, currentIndex, lastLoadTime,
                 usageStats, locked, queue, procs, nextAt, hist, sseVars, idCache, transVars, reader, mutex, logs, now>>

\* what checkRateLimit answered to the call id
CheckOf(id) == khist[CHOOSE i \in 1..Len(khist) : khist[i].id = id]

\* the middleware after checkRateLimit: 429 with reset_in_seconds, or next()
authChecked(p) ==
  /\ kprocs[p].pc = "mw_checked"
  /\ LET rateLimitCheck == CheckOf(kprocs[p].id)
     IN answers' = Append(answers,
                          IF ~rateLimitCheck.allowed
                          THEN Answer(kprocs[p].key, "429", "key", kprocs[p].id,
                                      rateLimitCheck.resetIn)
                          ELSE Answer(kprocs[p].key, "next", "key", kprocs[p].id, 0))
  /\ kprocs' = [kprocs EXCEPT ![p] = KProc0]
  /\ UNCHANGED <<keysCacheIsNull, keysCache, keysFile, kmLocked, kmQueue, autoSaveInterval,
                 khist, calls, config,
                 accountsFile, heap, cachedData, tokens, currentIndex, lastLoadTime,
                 usageStats, locked, queue, procs, nextAt, hist, sseVars, idCache, transVars, reader, mutex, logs, now>>

NextAuth ==
  \/ \E p \in Procs, needsAuth \in BOOLEAN, providedKey \in ProvidedKeys :
       authMiddleware(p, needsAuth, providedKey)
  \/ \E p \in Procs : ensureInitializedLocked(p)
  \/ \E p \in Procs : ensureInitializedRead(p)
  \/ \E p \in Procs : validateKeyBody(p)
  \/ \E p \in Procs : authValidated(p)
  \/ \E p \in Procs : checkRateLimitBody(p)
  \/ \E p \in Procs : authChecked(p)
  \/ Elapse
SpecAuth == InitAuth /\ [][NextAuth]_vars

(***************************************************************************)
(* The key store: createKey, deleteKey, persistKeys                        *)
(***************************************************************************)
\* customKey of createKey ("": none) and the keys generateApiKey() returns, one for
\* each call
CustomKeys == {"", "K", "N"}
GeneratedKeys == <<"G1", "G2", "G3", "G4", "G5">>
DefaultRateLimit ==
  [enabled |-> FALSE, maxRequests |-> DefaultMaxRequests, windowMs |-> DefaultWindowMs]

InitKeys ==
  /\ StartRate(MaxKeyCalls, {DefaultRateLimit})
  /\ ConfigDefault

KeyExistsNever(cache, customKey) == FALSE
\* keysCache.some(k => k.key === customKey)
KeyExists(cache, customKey) == \E j \in 1..Len(cache) : cache[j].key = customKey

\* a call of the key store by process p begins: await ensureInitialized()
StartKeyCall(p, k, after) ==
  LET id == Len(answers) + Cardinality(InFlight) + 1
      started == [q \in Procs |->
                    IF q = p THEN [KProc0 EXCEPT !.pc = "start", !.key = k, !.id = id,
                                                 !.conc = InFlight, !.after = after]
                    ELSE IF kprocs[q].pc # "idle"
                    THEN [kprocs[q] EXCEPT !.conc = @ \cup {id}]
                    ELSE kprocs[q]]
  IN EnsureInitialized(started, p)

KeyAnswer(kp, op, status) ==
  [op |-> op, key |-> kp.key, id |-> kp.id, conc |-> kp.conc, status |-> status]

\* createKey(name, rateLimit, customKey) up to its first await
createKey(p, customKey) ==
  /\ KDrained
  /\ kprocs[p].pc = "idle"
  /\ calls > 0
  /\ calls' = calls - 1
  /\ StartKeyCall(p, customKey, "ck_body")
  /\ UNCHANGED <<keysCacheIsNull, keysCache, keysFile, autoSaveInterval, khist, authVars,
                 accountsFile, heap, cachedData, tokens, currentIndex, lastLoadTime,
                 usageStats, locked, queue, procs, nextAt, hist, sseVars, idCache, transVars, reader, mutex, logs, now>>

\* deleteKey(keyToDelete) up to its first await
deleteKey(p, keyToDelete) ==
  /\ KDrained
  /\ kprocs[p].pc = "idle"
  /\ calls > 0
  /\ calls' = calls - 1
  /\ StartKeyCall(p, keyToDelete, "dk_body")
  /\ UNCHANGED <<keysCacheIsNull, keysCache, keysFile, autoSaveInterval, khist, authVars,
                 accountsFile, heap, cachedData, tokens, currentIndex, lastLoadTime,
                 usageStats, locked, queue, procs, nextAt, hist, sseVars, idCache, transVars, reader, mutex, logs, now>>

\* persistKeys(): fileMutex.runExclusive
PersistKeys(kp, p) ==
  IF kmLocked
  THEN /\ kprocs' = [kp EXCEPT ![p].pc = "pk_wait"]
       /\ kmQueue' = Append(kmQueue, p)
       /\ UNCHANGED kmLocked
  ELSE /\ kprocs' = [kp EXCEPT ![p].pc = "pk_locked"]
       /\ kmLocked' = TRUE
       /\ UNCHANGED kmQueue

\* createKey after ensureInitialized, up to the lock of persistKeys
createKeyBody(p) ==
  /\ kprocs[p].pc = "ck_body"
  /\ LET customKey == kprocs[p].key
     IN IF customKey # "" /\ KeyExists(keysCache, customKey)
        THEN /\ answers' = Append(answers, KeyAnswer(kprocs[p], "create", "exists"))
             /\ kprocs' = [kprocs EXCEPT ![p] = KProc0]
             /\ UNCHANGED <<keysCache, kmLocked, kmQueue>>
        ELSE /\ keysCache' =
                  Append(keysCache,
                         ApiKey(IF customKey # "" THEN customKey
                                ELSE GeneratedKeys[kprocs[p].id], DefaultRateLimit))
             /\ PersistKeys(kprocs, p)
             /\ UNCHANGED answers
  /\ UNCHANGED <<keysCacheIsNull, keysFile, autoSaveInterval, khist, calls, config,
                 accountsFile, heap, cachedData, tokens, currentIndex, lastLoadTime,
                 usageStats, locked, queue, procs, nextAt, hist, sseVars, idCache, transVars, reader, mutex, logs, now>>

\* deleteKey after ensureInitialized, up to the lock of persistKeys
deleteKeyBody(p) ==
  /\ kprocs[p].pc = "dk_body"
  /\ LET kept == SelectSeq(keysCache, LAMBDA k : k.key # kprocs[p].key)
     IN IF Len(kept) = Len(keysCache)
        THEN /\ answers' = Append(answers, KeyAnswer(kprocs[p], "delete", "missing"))
             /\ kprocs' = [kprocs EXCEPT ![p] = KProc0]
             /\ UNCHANGED <<keysCache, kmLocked, kmQueue>>
        ELSE /\ keysCache' = kept
             /\ PersistKeys(kprocs, p)
             /\ UNCHANGED answers
  /\ UNCHANGED <<keysCacheIsNull, keysFile, autoSaveInterval, khist, calls, config,
                 accountsFile, heap, cachedData, tokens, currentIndex, lastLoadTime,
                 usageStats, locked, queue, procs, nextAt, hist, sseVars, idCache, transVars, reader, mutex, logs, now>>

\* persistKeys inside the lock: await ensureDataDir()
persistKeysLocked(p) ==
  /\ kprocs[p].pc = "pk_locked"
  /\ kprocs' = [kprocs EXCEPT ![p].pc = "pk_dir"]
  /\ UNCHANGED <<keysCacheIsNull, keysCache, keysFile, kmLocked, kmQueue, autoSaveInterval,
                 khist, now, NotRate>>

stringifyFirst(cache) == IF cache = <<>> THEN cache ELSE <<Head(cache)>>
\* JSON.stringify(keysCache, null, 2): every record, whole
stringify(cache) == cache

\* which call of the key store awaits persistKeys
OpOf(after) ==
  IF after = "ck_body" THEN "create"
  ELSE IF after = "dk_body" THEN "delete"
  ELSE IF after = "uk_body" THEN "update"
  ELSE "autosave"

\* the directory is there: fs.writeFile(KEYS_FILE, JSON.stringify(keysCache))
persistKeysDir(p) ==
  /\ KDrained
  /\ kprocs[p].pc = "pk_dir"
  /\ kprocs' = [kprocs EXCEPT ![p].pc = "pk_write", ![p].buf = stringify(keysCache)]
  /\ UNCHANGED <<keysCacheIsNull, keysCache, keysFile, kmLocked, kmQueue, autoSaveInterval,
                 khist, now, NotRate>>

\* the file is written: the lock is released and the call returns
persistKeysWritten(p) ==
  /\ KDrained
  /\ kprocs[p].pc = "pk_write"
  /\ keysFile' = kprocs[p].buf
  /\ KmRelease([kprocs EXCEPT ![p] = KProc0])
  /\ answers' = Append(answers, KeyAnswer(kprocs[p], OpOf(kprocs[p].after), "ok"))
  /\ UNCHANGED <<keysCacheIsNull, keysCache, autoSaveInterval, khist, calls, config,
                 accountsFile, heap, cachedData, tokens, currentIndex, lastLoadTime,
                 usageStats, locked, queue, procs, nextAt, hist, sseVars, idCache, transVars, reader, mutex, logs, now>>

NextKeys ==
  \/ \E p \in Procs, customKey \in CustomKeys : createKey(p, customKey)
  \/ \E p \in Procs, keyToDelete \in {"K", "N"} : deleteKey(p, keyToDelete)
  \/ \E p \in Procs : ensureInitializedLocked(p)
  \/ \E p \in Procs : ensureInitializedRead(p)
  \/ \E p \in Procs : createKeyBody(p)
  \/ \E p \in Procs : deleteKeyBody(p)
  \/ \E p \in Procs : persistKeysLocked(p)
  \/ \E p \in Procs : persistKeysDir(p)
  \/ \E p \in Procs : persistKeysWritten(p)
SpecKeys == InitKeys /\ [][NextKeys]_vars

\* updateKeyRateLimit(keyToUpdate, rateLimit) up to its first await
updateKeyRateLimit(p, keyToUpdate, rateLimit) ==
  /\ KDrained
  /\ kprocs[p].pc = "idle"
  /\ calls > 0
  /\ calls' = calls - 1
  /\ LET id == Len(answers) + Cardinality(InFlight) + 1
         started == [q \in Procs |->
                       IF q = p THEN [KProc0 EXCEPT !.pc = "start", !.key = keyToUpdate,
                                                    !.id = id, !.conc = InFlight,
                                                    !.after = "uk_body",
                                                    !.buf = <<rateLimit>>]
                       ELSE IF kprocs[q].pc # "idle"
                       THEN [kprocs[q] EXCEPT !.conc = @ \cup {id}]
                       ELSE kprocs[q]]
     IN EnsureInitialized(started, p)
  /\ UNCHANGED <<keysCacheIsNull, keysCache, keysFile, autoSaveInterval, khist, authVars,
                 accountsFile, heap, cachedData, tokens, currentIndex, lastLoadTime,
                 usageStats, locked, queue, procs, nextAt, hist, sseVars, idCache, transVars, reader, mutex, logs, now>>

\* updateKeyRateLimit after ensureInitialized, up to the lock of persistKeys
updateKeyRateLimitBody(p) ==
  /\ kprocs[p].pc = "uk_body"
  /\ LET j == FindKey(keysCache, kprocs[p].key)
     IN IF j = 0
        THEN /\ answers' = Append(answers, KeyAnswer(kprocs[p], "update", "missing"))
             /\ kprocs' = [kprocs EXCEPT ![p] = KProc0]
             /\ UNCHANGED <<keysCache, kmLocked, kmQueue>>
        ELSE /\ keysCache' = [keysCache EXCEPT ![j].rateLimit = kprocs[p].buf[1]]
             /\ PersistKeys(kprocs, p)
             /\ UNCHANGED answers
  /\ UNCHANGED <<keysCacheIsNull, keysFile, autoSaveInterval, khist, calls, config,
                 accountsFile, heap, cachedData, tokens, currentIndex, lastLoadTime,
                 usageStats, locked, queue, procs, nextAt, hist, sseVars, idCache, transVars, reader, mutex, logs, now>>

\* the timer of ensureInitialized fires: persistKeys()
autoSave(p) ==
  /\ KDrained
  /\ autoSaveInterval
  /\ ~keysCacheIsNull
  /\ kprocs[p].pc = "idle"
  /\ calls > 0
  /\ calls' = calls - 1
  /\ LET id == Len(answers) + Cardinality(InFlight) + 1
         started == [q \in Procs |->
                       IF q = p THEN [KProc0 EXCEPT !.pc = "start", !.key = "-", !.id = id,
                                                    !.conc = InFlight, !.after = "timer"]
                       ELSE IF kprocs[q].pc # "idle"
                       THEN [kprocs[q] EXCEPT !.conc = @ \cup {id}]
                       ELSE kprocs[q]]
     IN PersistKeys(started, p)
  /\ UNCHANGED <<keysCacheIsNull, keysCache, keysFile, autoSaveInterval, khist, authVars,
                 accountsFile, heap, cachedData, tokens, currentIndex, lastLoadTime,
                 usageStats, locked, queue, procs, nextAt, hist, sseVars, idCache, transVars, reader, mutex, logs, now>>

\* the key store as the admin routes, the middleware and the timer use it
PersistPolicy == [enabled |-> TRUE, maxRequests |-> 1, windowMs |-> 20000]
InitPersist ==
  /\ StartRate(MaxPersistCalls, {PersistPolicy})
  /\ ConfigDefault

NextPersist ==
  \/ \E p \in Procs : createKey(p, "N")
  \/ \E p \in Procs : deleteKey(p, "K")
  \/ \E p \in Procs : updateKeyRateLimit(p, "K", DefaultRateLimit)
  \/ \E p \in Procs : authMiddleware(p, TRUE, "K")
  \/ \E p \in Procs : autoSave(p)
  \/ \E p \in Procs : ensureInitializedLocked(p)
  \/ \E p \in Procs : ensureInitializedRead(p)
  \/ \E p \in Procs : createKeyBody(p)
  \/ \E p \in Procs : deleteKeyBody(p)
  \/ \E p \in Procs : updateKeyRateLimitBody(p)
  \/ \E p \in Procs : validateKeyBody(p)
  \/ \E p \in Procs : authValidated(p)
  \/ \E p \in Procs : checkRateLimitBody(p)
  \/ \E p \in Procs : authChecked(p)
  \/ \E p \in Procs : persistKeysLocked(p)
  \/ \E p \in Procs : persistKeysDir(p)
  \/ \E p \in Procs : persistKeysWritten(p)
SpecPersist == InitPersist /\ [][NextPersist]_vars

(***************************************************************************)
(* Identity cache: getCachedIds (src/utils/utils.ts)                       *)
(***************************************************************************)
NotIds == <<poolVars, rateVars, sseVars, authVars, transVars, reader, mutex, logs>>

ApiKeys == {"K1", "K2"}
\* the values generateProjectId() and generateSessionId() may return
IdValues == 1..2

InitIds ==
  /\ ConfigDefault
  /\ PoolOff
  /\ RateOff
  /\ SseOff

\* if (now > cache.projectExpiry)
ProjectExpiredWithSession(cache) == now > cache.sessionExpiry
ProjectExpired(cache) == now > cache.projectExpiry
\* if (now > cache.sessionExpiry)
SessionExpired(cache) == now > cache.sessionExpiry

\* getCachedIds(apiKey); pid and sid are what the generators would return
getCachedIds(apiKey, pid, sid) ==
  /\ IF apiKey \notin DOMAIN idCache
     THEN idCache' = [k \in DOMAIN idCache \cup {apiKey} |->
                        IF k = apiKey
                        THEN [projectId |-> pid, projectExpiry |-> now + PROJECT_ID_DURATION,
                              sessionId |-> sid, sessionExpiry |-> now + SESSION_ID_DURATION]
                        ELSE idCache[k]]
     ELSE LET cache == idCache[apiKey]
              c1 == IF ProjectExpired(cache)
                    THEN [cache EXCEPT !.projectId = pid,
                                       !.projectExpiry = now + PROJECT_ID_DURATION]
                    ELSE cache
              c2 == IF SessionExpired(c1)
                    THEN [c1 EXCEPT !.sessionId = sid,
                                    !.sessionExpiry = now + SESSION_ID_DURATION]
                    ELSE c1
          IN idCache' = [idCache EXCEPT ![apiKey] = c2]
  /\ UNCHANGED <<now, NotIds>>

\* the instants of the calls: on and one millisecond past the expiries
IdInstants ==
  {Now0 + h * SESSION_ID_DURATION + ms : h \in {1, 11, 12, 13}, ms \in {0, 1}}

\* time passes
ElapseIds ==
  /\ \E t \in IdInstants :
       /\ t > now
       /\ now' = t
  /\ UNCHANGED <<idCache, NotIds>>

NextIds ==
  \/ \E apiKey \in ApiKeys, pid \in IdValues, sid \in IdValues : getCachedIds(apiKey, pid, sid)
  \/ ElapseIds
SpecIds == InitIds /\ [][NextIds]_vars

(***************************************************************************)
(* Translation of the client's messages to Upstream contents (utils.ts)    *)
(***************************************************************************)
NotTrans == <<poolVars, rateVars, sseVars, now, idCache, authVars, reader, mutex, logs>>

\* a text is a sequence of characters; SIG stands for one whole sentinel
\* <!-- thought_signature: S -->
Chars == {"a", " ", "SIG"}
Texts(n) == UNION {[1..k -> Chars] : k \in 0..n}

\* OpenAI content: a string (array FALSE, one item) or an array of text parts
OpenAIContents ==
  {[array |-> FALSE, items |-> <<t>>] : t \in Texts(MaxText)}
    \cup {[array |-> TRUE, items |-> <<t, u>>] : t \in Texts(1), u \in Texts(1)}
OpenAIMessages ==
  [role : {"system", "user", "assistant"}, content : OpenAIContents,
   tool_calls : {<<>>}, tool_call_id : {""}]

\* conversations with tools: the tool calls of an assistant message, each with its
\* id and the name of its function, and the tool messages that answer them
ToolCalls == {[id |-> "c1", name |-> "f"], [id |-> "c1", name |-> "g"]}
StringContent(t) == [array |-> FALSE, items |-> <<t>>]
ToolConversationMessages ==
  [role : {"user"}, content : {StringContent(<<"a">>)}, tool_calls : {<<>>},
   tool_call_id : {""}]
    \cup [role : {"assistant"},
          content : {StringContent(<<>>), StringContent(<<" ">>), StringContent(<<"a">>)},
          tool_calls : UNION {[1..k -> ToolCalls] : k \in 0..MaxToolCalls},
          tool_call_id : {""}]
    \cup [role : {"tool"}, content : {StringContent(<<"a">>)}, tool_calls : {<<>>},
          tool_call_id : {"c1", "c2"}]

\* Anthropic content: a string (array FALSE, one text block) or an array of blocks;
\* the input of a tool_use block is an object, or undefined when it is absent
Inputs == {"I1", "I2"}
undefined == "undefined"
Blocks ==
  {[type |-> "text", text |-> t, input |-> undefined] : t \in {<<>>, <<"a">>}}
    \cup {[type |-> "tool_use", text |-> <<>>, input |-> i] : i \in Inputs \cup {undefined}}
AnthropicContents ==
  {[array |-> FALSE, blocks |-> <<[type |-> "text", text |-> t, input |-> undefined]>>] :
     t \in {<<>>, <<"a">>}}
    \cup {[array |-> TRUE, blocks |-> b] : b \in UNION {[1..k -> Blocks] : k \in 0..MaxBlocks}}
AnthropicMessages == [role : {"user", "assistant"}, content : AnthropicContents]

InitTranslate ==
  /\ ConfigDefault
  /\ PoolOff
  /\ RateOff
  /\ SseOff

RECURSIVE Concat(_)
Concat(texts) == IF texts = <<>> THEN <<>> ELSE Head(texts) \o Concat(Tail(texts))

\* String.prototype.trim
RECURSIVE trim(_)
trim(t) ==
  IF t = <<>> THEN t
  ELSE IF Head(t) = " " THEN trim(Tail(t))
  ELSE IF t[Len(t)] = " " THEN trim(SubSeq(t, 1, Len(t) - 1))
  ELSE t

\* text.replace(signatureMatch[0], ''): the first sentinel goes
RECURSIVE replaceFirst(_)
replaceFirst(t) ==
  IF t = <<>> THEN t
  ELSE IF Head(t) = "SIG" THEN Tail(t)
  ELSE <<Head(t)>> \o replaceFirst(Tail(t))

hasSignature(t) == \E i \in 1..Len(t) : t[i] = "SIG"

\* extractImagesFromContent(content).text; contentText of handleAssistantMessage
contentText(content) == Concat(content.items)

\* handleUserMessage
handleUserMessage(message, antigravityMessages) ==
  Append(antigravityMessages,
         [role |-> "user", parts |-> <<[text |-> contentText(message.content)]>>])

hasContentNotEmpty(text) == text # <<>>
\* hasContent = contentText && contentText.trim() !== ''
hasContent(text) == text # <<>> /\ trim(text) # <<>>

\* antigravityTools: one functionCall part per tool call
antigravityTools(tool_calls) ==
  [i \in 1..Len(tool_calls) |->
     [functionCall |-> [id |-> tool_calls[i].id, name |-> tool_calls[i].name]]]

\* antigravityMessages[antigravityMessages.length - 1]?.role
lastRole(antigravityMessages) ==
  IF antigravityMessages = <<>> THEN undefined
  ELSE antigravityMessages[Len(antigravityMessages)].role

\* handleAssistantMessage
handleAssistantMessage(message, antigravityMessages) ==
  LET text == contentText(message.content)
      hasToolCalls == message.tool_calls # <<>>
      n == Len(antigravityMessages)
      parts == (IF hasContent(text)
                THEN <<[text |-> IF hasSignature(text) THEN trim(replaceFirst(text))
                                 ELSE text]>>
                ELSE <<>>) \o antigravityTools(message.tool_calls)
  IN IF lastRole(antigravityMessages) = "model" /\ hasToolCalls /\ ~hasContent(text)
     THEN [antigravityMessages EXCEPT ![n].parts = @ \o antigravityTools(message.tool_calls)]
     ELSE Append(antigravityMessages, [role |-> "model", parts |-> parts])

\* the name of the first part of the message that is a functionCall with this id
nameIn(parts, id) ==
  LET S == {k \in 1..Len(parts) : "functionCall" \in DOMAIN parts[k]
                                    /\ parts[k].functionCall.id = id}
  IN IF S = {} THEN ""
     ELSE parts[CHOOSE k \in S : \A j \in S : k <= j].functionCall.name

RECURSIVE functionNameOldest(_, _, _)
functionNameOldest(antigravityMessages, i, id) ==
  IF i = 0 THEN ""
  ELSE LET older == functionNameOldest(antigravityMessages, i - 1, id)
       IN IF older # "" THEN older
          ELSE IF antigravityMessages[i].role = "model"
          THEN nameIn(antigravityMessages[i].parts, id)
          ELSE ""
\* handleToolCall: the loop from the last message backwards, left at the first
\* model message that gives a name
RECURSIVE functionName(_, _, _)
functionName(antigravityMessages, i, id) ==
  IF i = 0 THEN ""
  ELSE IF antigravityMessages[i].role = "model"
          /\ nameIn(antigravityMessages[i].parts, id) # ""
  THEN nameIn(antigravityMessages[i].parts, id)
  ELSE functionName(antigravityMessages, i - 1, id)

\* handleToolCall
handleToolCall(message, antigravityMessages) ==
  LET n == Len(antigravityMessages)
      functionResponse ==
        [functionResponse |->
           [id |-> message.tool_call_id,
            name |-> functionName(antigravityMessages, n, message.tool_call_id)]]
  IN IF lastRole(antigravityMessages) = "user"
        /\ \E k \in 1..Len(antigravityMessages[n].parts) :
              "functionResponse" \in DOMAIN antigravityMessages[n].parts[k]
     THEN [antigravityMessages EXCEPT ![n].parts = Append(@, functionResponse)]
     ELSE Append(antigravityMessages, [role |-> "user", parts |-> <<functionResponse>>])

RECURSIVE openaiMessageToAntigravityFrom(_, _)
openaiMessageToAntigravityFrom(openaiMessages, antigravityMessages) ==
  IF openaiMessages = <<>> THEN antigravityMessages
  ELSE LET message == Head(openaiMessages)
       IN openaiMessageToAntigravityFrom(
            Tail(openaiMessages),
            IF message.role \in {"user", "system"}
            THEN handleUserMessage(message, antigravityMessages)
            ELSE IF message.role = "assistant"
            THEN handleAssistantMessage(message, antigravityMessages)
            ELSE handleToolCall(message, antigravityMessages))
openaiMessageToAntigravity(openaiMessages) ==
  openaiMessageToAntigravityFrom(openaiMessages, <<>>)

queryStringified(input) == <<"JSON.stringify", input>>
\* query: toolBlock.input ?? {}
query(input) == IF input = undefined THEN "{}" ELSE input

\* the part of one block of an assistant message
RECURSIVE assistantParts(_)
assistantParts(contentBlocks) ==
  IF contentBlocks = <<>> THEN <<>>
  ELSE LET block == Head(contentBlocks)
       IN <<(IF block.type = "text"
             THEN [kind |-> "text", text |-> block.text, query |-> undefined]
             ELSE [kind |-> "functionCall", text |-> <<>>, query |-> query(block.input)])>>
            \o assistantParts(Tail(contentBlocks))

\* the parts of the blocks of a user message: tool_use blocks give nothing
RECURSIVE userParts(_)
userParts(contentBlocks) ==
  IF contentBlocks = <<>> THEN <<>>
  ELSE LET block == Head(contentBlocks)
       IN (IF block.type = "text"
           THEN <<[kind |-> "text", text |-> block.text, query |-> undefined]>>
           ELSE <<>>) \o userParts(Tail(contentBlocks))

\* contentBlocks of a message: the array, or one text block for a string that is not ''
contentBlocksOf(content) ==
  IF content.array THEN content.blocks
  ELSE IF content.blocks[1].text # <<>> THEN content.blocks
  ELSE <<>>

RECURSIVE anthropicMessagesToAntigravityFrom(_, _)
anthropicMessagesToAntigravityFrom(messages, antigravityMessages) ==
  IF messages = <<>> THEN antigravityMessages
  ELSE LET message == Head(messages)
           contentBlocks == contentBlocksOf(message.content)
           parts == IF message.role = "assistant" THEN assistantParts(contentBlocks)
                    ELSE userParts(contentBlocks)
       IN anthropicMessagesToAntigravityFrom(
            Tail(messages),
            IF parts # <<>>
            THEN Append(antigravityMessages,
                        [role |-> IF message.role = "assistant" THEN "model" ELSE "user",
                         parts |-> parts])
            ELSE antigravityMessages)
anthropicMessagesToAntigravity(messages) ==
  anthropicMessagesToAntigravityFrom(messages, <<>>)

\* a request arrives at POST /chat/completions
receiveOpenAI(messages) ==
  /\ body = NoBody
  /\ body' = [dialect |-> "openai", messages |-> messages]
  /\ UNCHANGED <<requestBody, NotTrans>>

\* a request arrives at POST /messages
receiveAnthropic(messages) ==
  /\ body = NoBody
  /\ body' = [dialect |-> "anthropic", messages |-> messages]
  /\ UNCHANGED <<requestBody, NotTrans>>

\* generateRequestBody: request.contents
generateRequestBody ==
  /\ body.dialect = "openai"
  /\ ~requestBody.made
  /\ requestBody' = [made |-> TRUE, contents |-> openaiMessageToAntigravity(body.messages)]
  /\ UNCHANGED <<body, NotTrans>>

\* generateAnthropicRequestBody: request.contents
generateAnthropicRequestBody ==
  /\ body.dialect = "anthropic"
  /\ ~requestBody.made
  /\ requestBody' = [made |-> TRUE,
                     contents |-> anthropicMessagesToAntigravity(body.messages)]
  /\ UNCHANGED <<body, NotTrans>>

NextTranslate ==
  \/ \E messages \in UNION {[1..k -> OpenAIMessages] : k \in 1..MaxMessages} :
       receiveOpenAI(messages)
  \/ \E messages \in UNION {[1..k -> AnthropicMessages] : k \in 1..MaxMessages} :
       receiveAnthropic(messages)
  \/ generateRequestBody
  \/ generateAnthropicRequestBody
SpecTranslate == InitTranslate /\ [][NextTranslate]_vars

\* the translation of the OpenAI conversations with tools
receiveConversation ==
  /\ body = NoBody
  /\ \E messages \in UNION {[1..k -> ToolConversationMessages] : k \in 1..MaxToolMessages} :
       receiveOpenAI(messages)

NextTools ==
  \/ receiveConversation
  \/ generateRequestBody
SpecTools == InitTranslate /\ [][NextTools]_vars

(***************************************************************************)
(* Upstream client: the dispatcher of the streamed response (client.ts)    *)
(***************************************************************************)
NotStream == <<poolVars, rateVars, sseVars, now, idCache, authVars, transVars, mutex, logs>>

\* the parts of a candidate: a thought, a text, a text '' , a functionCall, and a
\* part with none of these fields
PartKinds == {"thought", "text", "empty_text", "functionCall", "other"}
PartSeqs == UNION {[1..n -> PartKinds] : n \in 0..MaxParts}
\* the 'data: ' lines of the body: a payload that JSON.parse rejects, or an object
\* with its parts and with or without finishReason
InvalidLine == [valid |-> FALSE, parts |-> <<>>, finishReason |-> FALSE]
Lines ==
  {InvalidLine} \cup [valid : {TRUE}, parts : PartSeqs, finishReason : BOOLEAN]

\* the events handed to the callback
ThinkStart == [type |-> "thinking", content |-> "<think>", tool_calls |-> <<>>]
ThinkDelta == [type |-> "thinking", content |-> "part.text", tool_calls |-> <<>>]
ThinkEnd == [type |-> "thinking", content |-> "</think>", tool_calls |-> <<>>]
Text == [type |-> "text", content |-> "part.text", tool_calls |-> <<>>]
ToolCall(list) == [type |-> "tool_calls", content |-> "-", tool_calls |-> list]

\* callback({ type: 'thinking', content: '\n</think>\n' }) if thinkingStarted
closeThinking(s) ==
  IF s.thinkingStarted
  THEN [s EXCEPT !.events = Append(@, ThinkEnd), !.thinkingStarted = FALSE]
  ELSE s

\* one pass of for (const part of parts)
dispatchPart(s, part) ==
  IF part = "thought"
  THEN [s EXCEPT !.events = (IF s.thinkingStarted THEN @ ELSE Append(@, ThinkStart))
                            \o <<ThinkDelta>>,
                 !.thinkingStarted = TRUE]
  ELSE IF part = "text"
  THEN [closeThinking(s) EXCEPT !.events = Append(@, Text)]
  ELSE IF part = "empty_text"
  THEN closeThinking(s)
  ELSE IF part = "functionCall"
  THEN [s EXCEPT !.toolCalls = Append(@, s.seen + 1), !.seen = @ + 1]
  ELSE s

RECURSIVE dispatchParts(_, _)
dispatchParts(s, parts) ==
  IF parts = <<>> THEN s ELSE dispatchParts(dispatchPart(s, Head(parts)), Tail(parts))

flushKeepingToolCalls(s) ==
  [closeThinking(s) EXCEPT !.events = Append(@, ToolCall(s.toolCalls))]
\* if (finishReason && toolCalls.length > 0): close the thinking, send the tool
\* calls, toolCalls = []
flush(s) ==
  [closeThinking(s) EXCEPT !.events = Append(@, ToolCall(s.toolCalls)),
                           !.toolCalls = <<>>]

parseFailedClosing(s) == closeThinking(s)
\* catch (e) { }: JSON.parse threw before anything was done for the line
parseFailed(s) == s

\* the body of for (const line of lines)
dispatchLine(s, line) ==
  IF ~line.valid THEN parseFailed(s)
  ELSE LET t == dispatchParts(s, line.parts)
       IN IF line.finishReason /\ t.toolCalls # <<>> THEN flush(t) ELSE t

InitStream ==
  /\ ConfigDefault
  /\ PoolOff
  /\ RateOff
  /\ SseOff

\* response.body.getReader(): thinkingStarted = false, toolCalls = []
getReader ==
  /\ reader.pc = "idle"
  /\ reader' = [Stream0 EXCEPT !.pc = "reading"]
  /\ UNCHANGED NotStream

\* reader.read() gave a chunk; it holds one 'data: ' line.  reader.whole is what
\* the dispatcher does with the lines of the concatenated body, each taken whole.
readValue(line) ==
  /\ reader.pc = "reading"
  /\ reader.read < MaxLines
  /\ ~reader.pending.is
  /\ reader' = [dispatchLine(reader, line) EXCEPT
                  !.line = line, !.read = @ + 1,
                  !.skipped = IF line.valid THEN @ ELSE @ + 1,
                  !.whole = dispatchLine(reader.whole, line)]
  /\ UNCHANGED NotStream

\* reader.read() gave a chunk that ends inside a 'data: ' line: chunk.split gives
\* the beginning of the line, which is not a complete JSON text: JSON.parse throws
readFragment(line) ==
  /\ reader.pc = "reading"
  /\ reader.read < MaxLines
  /\ ~reader.pending.is
  /\ line.valid
  /\ reader' = [parseFailed(reader) EXCEPT
                  !.read = @ + 1, !.pending = [is |-> TRUE, line |-> line]]
  /\ UNCHANGED NotStream

\* reader.read() gave the chunk with the rest of that line: it does not start with
\* 'data: ' and the filter removes it; nothing is kept from one chunk to the next
readRest ==
  /\ reader.pc = "reading"
  /\ reader.pending.is
  /\ reader' = [reader EXCEPT
                  !.pending = Stream0.pending,
                  !.whole = dispatchLine(reader.whole, reader.pending.line)]
  /\ UNCHANGED NotStream

\* reader.read() gave done: the loop is left and the function returns
readDone ==
  /\ reader.pc = "reading"
  /\ reader' = [reader EXCEPT !.pc = "returned"]
  /\ UNCHANGED NotStream

NextStream ==
  \/ getReader
  \/ \E line \in Lines : readValue(line)
  \/ readDone
SpecStream == InitStream /\ [][NextStream]_vars

\* the same, with chunks that end inside a line
NextChunks ==
  \/ NextStream
  \/ \E line \in Lines : readFragment(line)
  \/ readRest
SpecChunks == InitStream /\ [][NextChunks]_vars

(***************************************************************************)
(* Properties of the credential pool                                       *)
(***************************************************************************)
\* the credential a getToken call has just returned to its request, "-" if none
Returned(p) ==
  IF procs[p].pc = "req_got" /\ procs[p].token # Null THEN heap[procs[p].token].rt ELSE "-"

\* C1: once the disabling of a credential has completed (identity-provider 403,
\* upstream 403 through disableCurrentToken, or toggle(idx, false)), no getToken
\* call returns that credential until toggle(idx, true).
C1_DisableIsSticky == \A p \in Procs : Returned(p) \notin hist.disabledDone

\* C4: two getToken callers that were both suspended on the refresh of the same
\* expired credential are never both handed that credential.
C4_CoSuspendedNotBothHanded ==
  \A p, q \in Procs :
    (p # q /\ procs[p].co # "-" /\ procs[p].co = procs[q].co)
      => ~(procs[p].got = procs[p].co /\ procs[q].got = procs[q].co)

\* C5: whenever the enabled set is not empty, the cursor is an integer in
\* [0, enabled_count).
C5_CursorInRange == Len(tokens) > 0 => currentIndex \in 0..(Len(tokens) - 1)

\* C6: a request that the upstream rejects with 403 ends with that error only if
\* the pool holds no other credential to retry with; and once the credential is
\* disabled the enabled set no longer holds it.
C6_ForbiddenIsRetried ==
  /\ \A p \in Procs :
       procs[p].outcome = "forbidden"
         => \A k \in 1..Len(tokens) : heap[tokens[k]].rt = procs[p].used
  /\ \A k \in 1..Len(tokens) : heap[tokens[k]].rt \notin hist.disabledDone

\* C10: once the identity provider has answered the refresh of a credential with
\* 403 and the credential was disabled, no getToken call starts a refresh of it
\* or returns it until a toggle enables it again.
C10_NoRefreshAfterIdp403 ==
  \A p \in Procs :
    /\ procs[p].pc = "rt_fetch" => heap[procs[p].token].rt \notin hist.idp403Done
    /\ Returned(p) \notin hist.idp403Done

\* C9: the usage counter of every credential equals the number of getToken calls
\* that returned it, so the counters sum to the number of successful calls.
C9_UsageCountsReturns == \A c \in Creds : usageStats[c] = hist.handed[c]

\* C9 witness: both concurrent callers were handed credential A, counted twice.
C9_Witness ==
  /\ procs[1].got = "A" /\ procs[2].got = "A"
  /\ usageStats["A"] = 2

\* the next credential in the order of the pool [A, B, C]
Successor(c) == IF c = "A" THEN "B" ELSE IF c = "B" THEN "C" ELSE "A"

\* C8 as stated: while the pool [A, B, C] is unchanged and all enabled, consecutive
\* successful getToken calls return the credentials in pool order, so that any 3
\* of them return each credential exactly once.
C8_RotationAlways ==
  ~hist.changed
    => \A k \in 1..(Len(hist.run) - 1) : hist.run[k + 1] = Successor(hist.run[k])

\* C8 amended: the same, for the successful calls during which no refresh failed;
\* and five such calls from the start return A,B,C,A,B with usage A:2, B:2, C:1.
C8_RotationWithoutFailedRefresh ==
  ~hist.changed
    => /\ \A k \in hist.cleanFrom..(Len(hist.run) - 1) :
            hist.run[k + 1] = Successor(hist.run[k])
       /\ (hist.cleanFrom = 1 /\ Len(hist.run) = 5)
            => /\ hist.run = <<"A", "B", "C", "A", "B">>
               /\ usageStats = [c \in Creds |-> IF c = "C" THEN 1 ELSE 2]

\* C8 witness: five successful calls on the unchanged pool, none with a failed refresh
C8_Witness ==
  /\ ~hist.changed /\ hist.cleanFrom = 1
  /\ hist.run = <<"A", "B", "C", "A", "B">>
  /\ usageStats["A"] = 2 /\ usageStats["B"] = 2 /\ usageStats["C"] = 1

(***************************************************************************)
(* Properties of the rate limiter                                          *)
(***************************************************************************)
\* the answers given under the key's enabled policy, in the order they were given;
\* the first of them found an empty window
Limited == SelectSeq(khist, LAMBDA e : e.limited)
Cap == keysFile[1].rateLimit.maxRequests
Window == keysFile[1].rateLimit.windowMs
AllowedCount(h) == Cardinality({i \in 1..Len(h) : h[i].allowed})
Concurrent(a, b) == a.id \in b.conc \/ b.id \in a.conc

\* C2 as stated: of a burst of k > cap calls on one key whose timestamps span less
\* than the window, exactly cap are allowed and k - cap are denied.
C2_BurstWithinWindow ==
  LET h == Limited
  IN (Len(h) > Cap /\ h[Len(h)].at - h[1].at < Window) => AllowedCount(h) = Cap

\* C2 amended: the same, for a burst that starts on an empty window and whose last
\* timestamp is at most the window after the start of the 10-second bucket of
\* the first call.
C2_BurstWithinBucketWindow ==
  LET h == Limited
  IN (Len(h) > Cap /\ h[Len(h)].at - Bucket(h[1].at) <= Window) => AllowedCount(h) = Cap

\* C2 witness: cap 2, three calls at different instants, the third one denied
C2_Witness ==
  LET h == Limited
  IN /\ Cap = 2 /\ Len(h) = 3
     /\ h[3].at > h[1].at
     /\ h[3].at - Bucket(h[1].at) <= Window
     /\ h[1].allowed /\ h[2].allowed /\ ~h[3].allowed

\* C7 as stated: of two concurrent checkRateLimit calls on a key with cap 1 and an
\* empty window, at most one is allowed.
C7_AtMostOneAllowed ==
  LET h == Limited
  IN (Cap = 1 /\ Len(h) >= 2 /\ Concurrent(h[1], h[2]))
       => ~(h[1].allowed /\ h[2].allowed)

\* C7 amended: the same, when the 10-second bucket of the first call is still
\* inside the window at the second call.
C7_AtMostOneAllowedInBucketWindow ==
  LET h == Limited
  IN (Cap = 1 /\ Len(h) >= 2 /\ Concurrent(h[1], h[2])
        /\ h[2].at - Bucket(h[1].at) <= Window)
       => ~(h[1].allowed /\ h[2].allowed)

\* C7 witness: two concurrent calls under cap 1, the first allowed, the second denied
C7_Witness ==
  LET h == Limited
  IN /\ Cap = 1 /\ Len(h) >= 2 /\ Concurrent(h[1], h[2])
     /\ h[2].at - Bucket(h[1].at) <= Window
     /\ h[1].allowed /\ ~h[2].allowed

(***************************************************************************)
(* Properties of the route handlers                                        *)
(***************************************************************************)
Terminator == IF hreq.dialect = "openai" THEN "[DONE]" ELSE "message_stop"
TerminatorCount == Cardinality({i \in 1..Len(res.frames) : res.frames[i] = Terminator})

\* C3: once the handler of a streaming request has returned and the client is
\* still connected, the response is ended, and it holds exactly one terminator,
\* as its last frame.
C3_StreamEndsWithTerminator ==
  (hpc = "done" /\ res.sse /\ connected)
    => /\ res.ended
       /\ TerminatorCount = 1
       /\ res.frames[Len(res.frames)] = Terminator

\* C11: when the upstream call fails after at least one frame was written to a
\* streaming response, the handler writes a further, terminal frame and ends the
\* response; the frames written before stay.
C11_MidStreamErrorSurfaced ==
  (hpc = "done" /\ hreq.stream /\ hlocal.threwAfter >= 1)
    => /\ res.ended
       /\ Len(res.frames) > hlocal.threwAfter
       /\ res.frames[Len(res.frames)] \in {"error", "[DONE]"}

\* the offset of the first limited call in its 10-second bucket
FirstOffset == Limited[1].at % BucketMs
\* the first k limited calls came at t, t + 1 s, t + 2 s, t + 61 s
OnSchedule(k) ==
  /\ Len(Limited) >= k
  /\ \A i \in 2..k :
       Limited[i].at = Limited[1].at + (IF i = 2 THEN 1000 ELSE IF i = 3 THEN 2000 ELSE 61000)

\* C12 as stated: cap 2, window 60 s: the call at t is allowed with remaining 1, at
\* t + 1 s allowed with remaining 0, at t + 2 s denied with 58 <= reset_in_s <= 60,
\* at t + 61 s allowed, wherever t lies in its 10-second bucket.
C12_DenyWithReset ==
  LET h == Limited
  IN /\ OnSchedule(1) => (h[1].allowed /\ h[1].remaining = 1)
     /\ OnSchedule(2) => (h[2].allowed /\ h[2].remaining = 0)
     /\ OnSchedule(3) => (~h[3].allowed /\ h[3].resetIn >= 58 /\ h[3].resetIn <= 60)
     /\ OnSchedule(4) => h[4].allowed

\* C12 amended: the same, with reset_in_s = ceil((58000 - o) / 1000) for t lying
\* o ms after the start of its 10-second bucket: 58 for o < 1000, down to 49.
C12_DenyWithResetFromBucket ==
  LET h == Limited
  IN /\ OnSchedule(1) => (h[1].allowed /\ h[1].remaining = 1)
     /\ OnSchedule(2) => (h[2].allowed /\ h[2].remaining = 0)
     /\ OnSchedule(3) => /\ ~h[3].allowed
                         /\ h[3].resetIn = CeilSeconds(58000 - FirstOffset)
                         /\ h[3].resetIn >= 49 /\ h[3].resetIn <= 58
     /\ OnSchedule(4) => h[4].allowed

\* C12 witness: the four calls, the first 5 s into its bucket, the third denied
\* with reset_in_s = 53, the fourth allowed
C12_Witness ==
  /\ OnSchedule(4)
  /\ FirstOffset = 5000
  /\ ~Limited[3].allowed /\ Limited[3].resetIn = 53
  /\ Limited[4].allowed

\* C13: in every step, the project id and its expiry of a cached key change only
\* if the project expiry has passed, and the session id and its expiry only if the
\* session expiry has passed; so renewing one leaves the other as it was, and the
\* entries of the other keys stay.
C13_IdentityIndependence ==
  [][\A k \in DOMAIN idCache :
       /\ k \in DOMAIN idCache'
       /\ (idCache'[k].projectId # idCache[k].projectId
           \/ idCache'[k].projectExpiry # idCache[k].projectExpiry)
            => /\ now > idCache[k].projectExpiry
               /\ idCache'[k].projectExpiry = now + PROJECT_ID_DURATION
       /\ (idCache'[k].sessionId # idCache[k].sessionId
           \/ idCache'[k].sessionExpiry # idCache[k].sessionExpiry)
            => /\ now > idCache[k].sessionExpiry
               /\ idCache'[k].sessionExpiry = now + SESSION_ID_DURATION]_vars

\* C13 witness: for one key the project id was renewed while the session id, renewed
\* within the last hour, was kept; for the other the session only was renewed
C13_Witness ==
  /\ DOMAIN idCache = ApiKeys
  /\ idCache["K1"].projectExpiry - PROJECT_ID_DURATION
       > idCache["K1"].sessionExpiry - SESSION_ID_DURATION
  /\ idCache["K1"].projectExpiry > Now0 + PROJECT_ID_DURATION
  /\ idCache["K2"].projectExpiry = Now0 + PROJECT_ID_DURATION
  /\ idCache["K2"].sessionExpiry > Now0 + SESSION_ID_DURATION

\* the delta chunks of a sequence of events, in their order
RECURSIVE Deltas(_)
Deltas(events) ==
  IF events = <<>> THEN <<>>
  ELSE (IF Head(events) \in ToolEvents THEN <<"tool_calls_delta">>
        ELSE IF Head(events) = "thinking_empty" THEN <<>>
        ELSE <<"content_delta">>) \o Deltas(Tail(events))

\* POST /chat/completions with stream: true whose generateAssistantResponse returned
StreamSucceeded ==
  /\ hpc = "done"
  /\ hreq.dialect = "openai"
  /\ hreq.stream
  /\ res.sse
  /\ hlocal.threwAfter = -1

\* C14: a successful OpenAI stream is the delta chunks of the events in the order of
\* their arrival, then one chunk with the finish_reason, then one usage chunk, then
\* [DONE]; the finish_reason is tool_calls iff a tool_calls event arrived.
C14_OpenAIStreamFraming ==
  StreamSucceeded =>
    /\ res.ended
    /\ res.frames = Deltas(hlocal.events)
                      \o <<(IF \E i \in 1..Len(hlocal.events) : hlocal.events[i] \in ToolEvents
                            THEN "finish_tool_calls" ELSE "finish_stop"),
                           "usage", "[DONE]">>

\* C14 witness: a successful stream of text, then a tool call
C14_Witness ==
  /\ StreamSucceeded
  /\ hlocal.events = <<"text", "thinking_empty", "tool_calls">>
  /\ res.frames = <<"content_delta", "tool_calls_delta", "finish_tool_calls", "usage", "[DONE]">>

\* C15: the stop_reason of every answered /messages request, streamed or not, is
\* tool_use if a tool call was emitted; else stop_sequence if the content ends with a
\* requested stop sequence; else max_tokens if the output tokens reach the requested
\* max_tokens, also when stop sequences were requested and none matched; else end_turn.
C15_StopReasonOrder ==
  (hpc = "done" /\ hreq.dialect = "anthropic" /\ res.stop_reason # "-")
    => res.stop_reason =
         IF hlocal.hasToolCall THEN "tool_use"
         ELSE IF \E i \in 1..Len(hreq.stop_sequences) :
                   endsWith(hlocal.accumulated, hreq.stop_sequences[i])
         THEN "stop_sequence"
         ELSE IF hreq.max_tokens # 0 /\ OutputTokens(hlocal.accumulated) >= hreq.max_tokens
         THEN "max_tokens"
         ELSE "end_turn"

\* the answer the middleware appends in this step, if any
Answered == Len(answers') = Len(answers) + 1
LastAnswer == answers'[Len(answers')]

\* C16: a request that needs authorization is passed on only if it carries the admin-wide
\* key, or its key is in the key store and the limiter allowed its check; the step that
\* passes the admin-wide key changes no record of the key store and starts no check; a
\* key that is neither the admin-wide key nor in the store is answered 401; a denial of
\* the limiter is answered 429 with the limiter's reset_in_seconds.
C16_AuthorizationGate ==
  [][(Answered /\ LastAnswer.via # "open") =>
       LET a == LastAnswer
           known == FindKey(keysCache, a.key) # 0
       IN /\ a.status = "next"
               => \/ config.apiKey # "" /\ a.key = config.apiKey
                  \/ /\ known
                     /\ a.check # 0
                     /\ CheckOf(a.check).key = a.key
                     /\ CheckOf(a.check).allowed
          /\ (config.apiKey # "" /\ a.key = config.apiKey)
               => /\ a.status = "next"
                  /\ a.check = 0
                  /\ UNCHANGED <<keysCache, khist, kprocs>>
          /\ (a.key # config.apiKey /\ ~keysCacheIsNull /\ ~known) => a.status = "401"
          /\ (a.check # 0 /\ ~CheckOf(a.check).allowed)
               => /\ a.status = "429"
                  /\ a.reset_in_seconds = CheckOf(a.check).resetIn]_vars

\* C16 witness: the admin-wide key was passed on, an unknown key answered 401, and a key
\* of the store answered 429 after its requests were counted
C16_Witness ==
  /\ Len(answers) = 4
  /\ \E i, j, k \in 1..4 :
       /\ answers[i].key = AdminKey /\ answers[i].status = "next"
       /\ answers[j].key = "X" /\ answers[j].status = "401"
       /\ answers[k].key = "K" /\ answers[k].status = "429"
       /\ answers[k].reset_in_seconds >= 1
  /\ keysCache[1].requests >= 1

\* no two records of a list of keys have the same key value
OneRecordPerKey(cache) ==
  \A i, j \in 1..Len(cache) : cache[i].key = cache[j].key => i = j

\* C17: after every step the keys in memory and the keys on disk hold at most one
\* record for each key value, and a create whose supplied key is already held answers
\* that the key exists and leaves the records as they were.
C17_OneRecordPerKey ==
  [][/\ OneRecordPerKey(keysCache')
     /\ OneRecordPerKey(keysFile')
     /\ (Answered /\ LastAnswer.op = "create" /\ LastAnswer.status = "exists")
          => keysCache' = keysCache
     /\ \A p \in Procs :
          (kprocs[p].pc = "ck_body" /\ kprocs'[p].pc # "ck_body" /\ kprocs[p].key # ""
           /\ \E j \in 1..Len(keysCache) : keysCache[j].key = kprocs[p].key)
            => /\ Answered
               /\ LastAnswer.status = "exists"
               /\ LastAnswer.id = kprocs[p].id
               /\ keysCache' = keysCache]_vars

\* C17 witness: two creates with the supplied key N were in flight together; one
\* succeeded and the other was refused
C17_Witness ==
  \E i, j \in 1..Len(answers) :
    /\ answers[i].op = "create" /\ answers[i].key = "N" /\ answers[i].status = "ok"
    /\ answers[j].op = "create" /\ answers[j].key = "N" /\ answers[j].status = "exists"
    /\ answers[j].id \in answers[i].conc
    /\ OneRecordPerKey(keysCache)
    /\ KeyExists(keysFile, "N")

\* the tools of the request fail the validation: too many, the parameters too large,
\* not a function, or an empty name
ToolsInvalid ==
  /\ hreq.tools.n > 0
  /\ \/ hreq.tools.n > MAX_TOOLS
     \/ hreq.tools.schemaSize > MAX_TOOL_SCHEMA_SIZE
     \/ hreq.tools.type # "function"
     \/ hreq.tools.name = ""

\* C18: a request whose tools fail the validation is answered 400 in JSON and no
\* stream is opened: in both handlers, with stream on and off.
C18_ToolValidationIs400 ==
  (hpc # "idle" /\ ToolsInvalid)
    => /\ hpc = "done"
       /\ res.status = 400
       /\ ~res.sse

\* the text parts of a list of Upstream messages, concatenated
RECURSIVE UpstreamText(_)
UpstreamText(contents) ==
  IF contents = <<>> THEN <<>>
  ELSE Concat([i \in 1..Len(Head(contents).parts) |-> Head(contents).parts[i].text])
         \o UpstreamText(Tail(contents))

\* the text of the messages of the request, concatenated
RequestText == Concat([i \in 1..Len(body.messages) |-> contentText(body.messages[i].content)])

\* C19: the text parts of the contents translated from an OpenAI request without
\* tool_calls concatenate to the concatenation of the text of its messages with the
\* thought-signature sentinels removed.
C19_TranslationKeepsText ==
  (body.dialect = "openai" /\ requestBody.made)
    => UpstreamText(requestBody.contents) = SelectSeq(RequestText, LAMBDA c : c # "SIG")

\* the inputs of the tool_use blocks of the assistant messages, in their order
RECURSIVE ToolUseInputs(_)
ToolUseInputs(messages) ==
  IF messages = <<>> THEN <<>>
  ELSE (IF Head(messages).role = "assistant" /\ Head(messages).content.array
        THEN LET uses == SelectSeq(Head(messages).content.blocks,
                                   LAMBDA b : b.type = "tool_use")
             IN [i \in 1..Len(uses) |-> uses[i].input]
        ELSE <<>>) \o ToolUseInputs(Tail(messages))

\* args.query of the functionCall parts of the model messages, in their order
RECURSIVE FunctionCallQueries(_)
FunctionCallQueries(contents) ==
  IF contents = <<>> THEN <<>>
  ELSE (IF Head(contents).role = "model"
        THEN LET fcalls == SelectSeq(Head(contents).parts,
                                     LAMBDA part : part.kind = "functionCall")
             IN [i \in 1..Len(fcalls) |-> fcalls[i].query]
        ELSE <<>>) \o FunctionCallQueries(Tail(contents))

\* C20: the functionCall parts of the model messages translated from an Anthropic
\* request are as many as the tool_use blocks of its assistant messages, in the same
\* order, and args.query of each is the input of its block whenever the block has one.
C20_ToolUseInputUnchanged ==
  (body.dialect = "anthropic" /\ requestBody.made)
    => LET inputs == ToolUseInputs(body.messages)
           queries == FunctionCallQueries(requestBody.contents)
       IN /\ Len(queries) = Len(inputs)
          /\ \A i \in 1..Len(inputs) : inputs[i] # undefined => queries[i] = inputs[i]

\* C20 witness: two assistant messages with the inputs I2, I1 and then I2 were translated
C20_Witness ==
  /\ body.dialect = "anthropic"
  /\ requestBody.made
  /\ ToolUseInputs(body.messages) = <<"I2", "I1", "I2">>
  /\ FunctionCallQueries(requestBody.contents) = <<"I2", "I1", "I2">>
  /\ Len(requestBody.contents) = 2

\* the key set of a list of records: the keys and their policies, without the counters
Stored(cache) == [i \in 1..Len(cache) |-> [key |-> cache[i].key, rateLimit |-> cache[i].rateLimit]]

C22_DisabledWhenErrorSurfaces ==
  \A p \in Procs :
    procs[p].outcome = "forbidden"
      => /\ \A k \in 1..Len(accountsFile) :
              accountsFile[k].rt = procs[p].used => ~accountsFile[k].enable
         /\ \A k \in 1..Len(tokens) : heap[tokens[k]].rt # procs[p].used

\* every record of the accounts file carries enable = false
NoneEnabled == \A k \in 1..Len(accountsFile) : ~accountsFile[k].enable

\* C23: a getToken call makes at most as many attempts as there were enabled
\* credentials when it entered its loop, and when no enabled credential can be
\* made valid (here: every credential is recorded disabled) it returns null to
\* its request instead of a credential.
C23_BoundedAttemptsThenFailure ==
  \A p \in Procs :
    /\ procs[p].pc \in {"gt_iter", "rt_fetch", "gt_refreshed", "gt_disabled"}
         => procs[p].i <= procs[p].len0
    /\ (procs[p].pc = "req_got" /\ NoneEnabled) => procs[p].token = Null

\* caller p's refresh has just failed with a status other than 403
RefreshFailed(p) ==
  procs[p].pc = "rt_fetch" /\ procs'[p].pc \notin {"rt_fetch", "sf_start"}

\* the position of credential c in the enabled set, 0 if it is not there
PositionOf(c) ==
  IF \E k \in 1..Len(tokens) : heap[tokens[k]].rt = c
  THEN CHOOSE k \in 1..Len(tokens) : heap[tokens[k]].rt = c ELSE 0

\* C24: a refresh failure other than 403 of an enabled credential is transient: the credential stays
\* enabled in memory and in the accounts file, the cursor moves to the credential
\* after it, the same getToken call tries that credential next and returns it if
\* it is valid, and the failed credential stays in the enabled set for the next
\* rotation.
C24_TransientRefreshFailure ==
  [][\A p \in Procs :
       /\ (RefreshFailed(p) /\ heap[procs[p].token].enable) =>
            LET c == heap[procs[p].token].rt
                k == PositionOf(c)
            IN /\ accountsFile' = accountsFile
               /\ \A j \in 1..Len(accountsFile) :
                    accountsFile[j].rt = c => accountsFile[j].enable
               /\ k > 0
               /\ Len(tokens') = Len(tokens)
               /\ heap'[tokens'[k]].rt = c /\ heap'[tokens'[k]].enable
               /\ currentIndex' = k % Len(tokens)
               /\ procs'[p].pc = "gt_iter"
       /\ (procs[p].pc = "gt_iter" /\ procs[p].i > 0 /\ procs[p].i < Len(tokens)
           /\ currentIndex \in 0..(Len(tokens) - 1)) =>
            LET next == heap[tokens[currentIndex + 1]]
            IN IF isExpired(next)
               THEN procs'[p].pc = "rt_fetch" /\ heap'[procs'[p].token].rt = next.rt
               ELSE procs'[p].pc = "req_got" /\ procs'[p].got = next.rt]_vars

\* the frame of one checkRateLimit answer e on the key at position j: what the
\* call may change in the buckets of the key. dropped tells whether a current
\* bucket that has already left the window counts as dropped before the increment.
FrameOfCheck(e, j, dropped) ==
  LET policy == keysCache[j].rateLimit
      before == keysCache[j].usage
      after  == keysCache'[j].usage
      b      == (now \div BucketMs) * BucketMs
      live   == {t \in DOMAIN before : t >= now - policy.windowMs}
      count  == SumCounts(before, live)
      old    == IF b \in (IF dropped THEN live ELSE DOMAIN before) THEN before[b] ELSE 0
      others == \A t \in DOMAIN after \ {b} : t \in DOMAIN before /\ after[t] = before[t]
  IN IF ~policy.enabled
     THEN e.allowed /\ keysCache' = keysCache
     ELSE IF e.allowed
     THEN /\ b \in DOMAIN after /\ after[b] = old + 1
          /\ others
          /\ e.remaining = policy.maxRequests - count - 1
          /\ e.remaining >= 0
     ELSE \A t \in DOMAIN after : t \in DOMAIN before /\ after[t] = before[t]

CheckAnswered == Len(khist') = Len(khist) + 1

C26_DenyHasFiniteReset ==
  [][CheckAnswered =>
       LET e == khist'[Len(khist')]
           j == FindKey(keysCache, e.key)
       IN (j # 0 /\ e.limited /\ ~e.allowed) =>
            LET windowMs == OrDefault(keysCache[j].rateLimit.windowMs, DefaultWindowMs)
                buckets  == DOMAIN keysCache'[j].usage
            IN /\ buckets # {}
               /\ ~IsInfinite(e.resetIn)
               /\ e.resetIn = -((-(MinOf(buckets) + windowMs - now)) \div 1000)
               /\ e.resetIn >= 0
               /\ e.resetIn <= -((-windowMs) \div 1000)]_vars

\* the requests counted in the buckets of key j that are not older than its window
InWindow(j) ==
  LET usage == keysCache[j].usage
  IN SumCounts(usage, {t \in DOMAIN usage : t >= now - keysCache[j].rateLimit.windowMs})

LineHandled == reader.pc = "reading" /\ reader'.read = reader.read + 1

\* the positions of the ToolCall events in a sequence of events
ToolCallsIn(events) == {k \in 1..Len(events) : events[k].type = "tool_calls"}

\* a thinking block is open after the first m events
ThinkingOpen(events, m) ==
  Cardinality({k \in 1..m : events[k] = ThinkStart})
    > Cardinality({k \in 1..m : events[k] = ThinkEnd})

\* the number of the last functionCall that the first m events have delivered
Delivered(events, m) ==
  LET S == {k \in ToolCallsIn(events) : k <= m}
  IN IF S = {} THEN 0
     ELSE LET last == CHOOSE k \in S : \A j \in S : j <= k
          IN events[last].tool_calls[Len(events[last].tool_calls)]

\* C27: a ToolCall event is emitted only for a parsed object that carries
\* finishReason while the accumulator is not empty; it carries every functionCall
\* that arrived since the previous ToolCall event, in arrival order; a pending
\* thinking block is closed immediately before it; the accumulator is empty
\* afterwards.
C27_ToolCallOnFinish ==
  [][LineHandled =>
       LET before == reader.events
           after  == reader'.events
           new    == {k \in ToolCallsIn(after) : k > Len(before)}
       IN /\ Len(after) >= Len(before)
          /\ SubSeq(after, 1, Len(before)) = before
          /\ new # {} => /\ reader'.line.valid
                         /\ reader'.line.finishReason
                         /\ reader'.seen > Delivered(before, Len(before))
                         /\ reader'.toolCalls = <<>>
          /\ \A k \in new :
               LET first == Delivered(after, k - 1) + 1
               IN /\ after[k].tool_calls = [i \in 1..(reader'.seen - first + 1) |-> first + i - 1]
                  /\ ~ThinkingOpen(after, k - 1)
                  /\ (k > 1 /\ ThinkingOpen(after, k - 2)) => after[k - 1] = ThinkEnd]_vars

\* C27 witness: two functionCalls arrived during a thinking block; the line with
\* finishReason closed the block and delivered both; a later line delivered the third.
C27_Witness ==
  /\ Len(reader.events) = 5
  /\ reader.events[1] = ThinkStart
  /\ reader.events[3] = ThinkEnd
  /\ reader.events[4] = ToolCall(<<1, 2>>)
  /\ reader.events[5] = ToolCall(<<3>>)
  /\ reader.toolCalls = <<>>

\* the thinking markers among the first m events: starts minus ends
ThinkingDepth(events, m) ==
  Cardinality({k \in 1..m : events[k] = ThinkStart})
    - Cardinality({k \in 1..m : events[k] = ThinkEnd})

\* C28: in the events delivered for one response the thinking markers are
\* well-bracketed: '<think>' and '</think>' alternate beginning with '<think>',
\* no text or tool_calls event lies between a start and its end, and no start is
\* left without its end when the function returns.
C28_ThinkingWellBracketed ==
  LET events == reader.events
  IN /\ \A m \in 0..Len(events) : ThinkingDepth(events, m) \in {0, 1}
     /\ \A k \in 1..Len(events) :
          events[k].type \in {"text", "tool_calls"} => ThinkingDepth(events, k - 1) = 0
     /\ reader.pc = "returned" => ThinkingDepth(events, Len(events)) = 0

\* how many of the parts are of the given kind
CountParts(parts, kind) == Cardinality({k \in 1..Len(parts) : parts[k] = kind})

\* C29: a 'data: ' line whose payload is not valid JSON is skipped silently: it
\* produces no event and leaves the thinking mode and the accumulator of tool
\* calls as they were, and the lines after it are still handled: each text part
\* gives a text event, each functionCall is accumulated or delivered.
C29_InvalidLineSkipped ==
  [][LineHandled =>
       LET line == reader'.line
           new  == SubSeq(reader'.events, Len(reader.events) + 1, Len(reader'.events))
       IN /\ ~line.valid =>
               /\ reader'.events = reader.events
               /\ reader'.thinkingStarted = reader.thinkingStarted
               /\ reader'.toolCalls = reader.toolCalls
               /\ reader'.pc = "reading"
          /\ (line.valid /\ reader.skipped > 0) =>
               /\ Cardinality({k \in 1..Len(new) : new[k] = Text})
                    = CountParts(line.parts, "text")
               /\ reader'.seen = reader.seen + CountParts(line.parts, "functionCall")
               /\ IF line.finishReason
                  THEN reader'.toolCalls = <<>>
                       /\ Delivered(reader'.events, Len(reader'.events)) = reader'.seen
                  ELSE Len(reader'.toolCalls) =
                         Len(reader.toolCalls) + CountParts(line.parts, "functionCall")]_vars

\* C29 witness: a thought and a functionCall arrived, the second line was not valid
\* JSON, and the third line, with finishReason, closed the thinking block and
\* delivered the functionCall kept across the skipped line.
C29_Witness ==
  /\ reader.read = 3
  /\ reader.skipped = 1
  /\ reader.line.valid
  /\ reader.events = <<ThinkStart, ThinkDelta, ThinkEnd, ToolCall(<<1>>)>>

\* C37: the events delivered depend only on the concatenated body: once every
\* line begun has arrived entirely, the events are those of the lines taken whole
C37_ChunkBoundaryInvariance ==
  ~reader.pending.is => reader.events = reader.whole.events

\* C39: when stream() has returned, every functionCall parsed from the body is in
\* exactly one ToolCall event, also when no object carried finishReason
C39_FunctionCallsDeliveredOnce ==
  reader.pc = "returned" =>
    \A n \in 1..reader.seen :
      Cardinality({k \in ToolCallsIn(reader.events) :
                     \E j \in 1..Len(reader.events[k].tool_calls) :
                       reader.events[k].tool_calls[j] = n}) = 1

(***************************************************************************)
(* Properties of the Anthropic stream                                      *)
(***************************************************************************)
\* how many times a frame was written
Times(frames, frame) == Cardinality({k \in 1..Len(frames) : frames[k] = frame})

BlockFrames ==
  {"content_block_start:0", "content_block_delta:0", "content_block_stop:0",
   "content_block_start:1", "content_block_stop:1"}

\* POST /messages with stream: true whose generateAssistantResponse returned
\* without a parse error
MessagesStreamSucceeded ==
  /\ hpc = "done"
  /\ hreq.dialect = "anthropic"
  /\ hreq.stream
  /\ res.sse
  /\ hlocal.threwAfter = -1
  /\ ~hlocal.parseError

\* C30: in a /messages stream that was started message_start is the first event;
\* content_block_start of index 0 precedes every content_block_delta; no index is
\* started twice; on success every content_block_start has exactly one
\* content_block_stop of its index, and message_delta, message_stop are the last
\* two events, after all the block events.
C30_AnthropicStreamFraming ==
  LET frames == res.frames
      n == Len(frames)
  IN (hreq.dialect = "anthropic" /\ hreq.stream /\ res.sse /\ hlocal.threwAfter # 0) =>
       /\ n > 0 => frames[1] = "message_start"
       /\ \A k \in 1..n :
            frames[k] = "content_block_delta:0"
              => \E j \in 1..(k - 1) : frames[j] = "content_block_start:0"
       /\ Times(frames, "content_block_start:0") <= 1
       /\ Times(frames, "content_block_start:1") <= 1
       /\ MessagesStreamSucceeded =>
            /\ Times(frames, "content_block_stop:0") = Times(frames, "content_block_start:0")
            /\ Times(frames, "content_block_stop:1") = Times(frames, "content_block_start:1")
            /\ n >= 3
            /\ frames[n - 1] = "message_delta" /\ frames[n] = "message_stop"
            /\ \A k \in 1..n : frames[k] \in BlockFrames => k < n - 1

\* a tool_calls event whose arguments are not valid JSON reached the callback
BadArguments ==
  \E k \in 1..Len(hlocal.events) : hlocal.events[k] = "tool_calls_bad_arguments"

ContentsAfter(k) == openaiMessageToAntigravity(SubSeq(body.messages, 1, k))

\* the model messages among the Upstream messages that hold a functionCall with this id
Holding(contents, id) ==
  {i \in 1..Len(contents) :
     /\ contents[i].role = "model"
     /\ \E p \in 1..Len(contents[i].parts) :
          "functionCall" \in DOMAIN contents[i].parts[p]
            /\ contents[i].parts[p].functionCall.id = id}

\* the names of the functionCalls with this id in message i, the empty name if none
NamesIn(contents, i, id) ==
  IF i \in Holding(contents, id)
  THEN {contents[i].parts[p].functionCall.name :
          p \in {q \in 1..Len(contents[i].parts) :
                   "functionCall" \in DOMAIN contents[i].parts[q]
                     /\ contents[i].parts[q].functionCall.id = id}}
  ELSE {""}

Last(S) == CHOOSE i \in S : \A j \in S : j <= i

\* the tool message k gave one functionResponse part with a name out of names, in a
\* user message of its own or, after another tool message, in the user message of the run
ToolMessageTranslated(k, names) ==
  LET message == body.messages[k]
      prev == ContentsAfter(k - 1)
      cur  == ContentsAfter(k)
      last == cur[Len(cur)]
      part == last.parts[Len(last.parts)]
  IN /\ cur # <<>>
     /\ last.role = "user"
     /\ "functionResponse" \in DOMAIN part
     /\ part.functionResponse.id = message.tool_call_id
     /\ part.functionResponse.name \in names
     /\ IF k > 1 /\ body.messages[k - 1].role = "tool"
        THEN /\ Len(cur) = Len(prev)
             /\ SubSeq(cur, 1, Len(cur) - 1) = SubSeq(prev, 1, Len(prev) - 1)
             /\ last.parts = Append(prev[Len(prev)].parts, part)
        ELSE /\ cur = Append(prev, last)
             /\ last.parts = <<part>>

\* C32 as stated: the name of the functionResponse of a tool message is the name of
\* the functionCall with its id in the nearest preceding model message, empty if
\* that message holds none; a run of tool messages gives one user message with
\* their functionResponse parts in order.
C32_ToolMessageNameFromNearestModel ==
  (body.dialect = "openai" /\ requestBody.made) =>
    /\ requestBody.contents = ContentsAfter(Len(body.messages))
    /\ \A k \in 1..Len(body.messages) :
         body.messages[k].role = "tool" =>
           LET prev == ContentsAfter(k - 1)
               models == {i \in 1..Len(prev) : prev[i].role = "model"}
           IN ToolMessageTranslated(
                k, IF models = {} THEN {""}
                   ELSE NamesIn(prev, Last(models), body.messages[k].tool_call_id))

\* C32 amended: the name is taken from the nearest preceding model message that
\* holds a functionCall with the id, however far back, empty if no model message
\* holds one.
C32_ToolMessageNameFromNearestHolder ==
  (body.dialect = "openai" /\ requestBody.made) =>
    /\ requestBody.contents = ContentsAfter(Len(body.messages))
    /\ \A k \in 1..Len(body.messages) :
         body.messages[k].role = "tool" =>
           LET prev == ContentsAfter(k - 1)
               id == body.messages[k].tool_call_id
               holders == Holding(prev, id)
           IN /\ ToolMessageTranslated(
                   k, IF holders = {} THEN {""} ELSE NamesIn(prev, Last(holders), id))
              /\ (holders # {} /\ Cardinality(NamesIn(prev, Last(holders), id)) > 1) =>
                   LET cur == ContentsAfter(k)
                       last == cur[Len(cur)]
                       matching == {p \in 1..Len(prev[Last(holders)].parts) :
                                   "functionCall" \in DOMAIN prev[Last(holders)].parts[p]
                                     /\ prev[Last(holders)].parts[p].functionCall.id = id}
                       first == CHOOSE p \in matching : \A q \in matching : p <= q
                   IN last.parts[Len(last.parts)].functionResponse.name
                        = prev[Last(holders)].parts[first].functionCall.name

\* C32 witness: the call c1 of f, answered by a run of two tool messages, the second
\* for an id that no model message holds
C32_Witness ==
  /\ body.dialect = "openai"
  /\ requestBody.made
  /\ Len(body.messages) = 3
  /\ requestBody.contents =
       <<[role |-> "model", parts |-> <<[functionCall |-> [id |-> "c1", name |-> "f"]]>>],
         [role |-> "user",
          parts |-> <<[functionResponse |-> [id |-> "c1", name |-> "f"]],
                      [functionResponse |-> [id |-> "c2", name |-> ""]]>>]>>

\* the text is empty or holds blanks only
Blank(text) == \A i \in 1..Len(text) : text[i] = " "

\* the functionCall parts of the tool calls of a message, in their order
FunctionCallsOf(message) ==
  [i \in 1..Len(message.tool_calls) |->
     [functionCall |-> [id |-> message.tool_calls[i].id,
                        name |-> message.tool_calls[i].name]]]

\* C33: an assistant message with tool_calls and no content other than blanks adds
\* its functionCall parts to the previous Upstream message when that message has
\* the role model, and no message is added; in every other case the assistant
\* message gives exactly one new model message: its text part, if it has text,
\* followed by its functionCall parts.
C33_AssistantMergeRule ==
  (body.dialect = "openai" /\ requestBody.made) =>
    /\ requestBody.contents = ContentsAfter(Len(body.messages))
    /\ \A k \in 1..Len(body.messages) :
         body.messages[k].role = "assistant" =>
           LET message == body.messages[k]
               text == message.content.items[1]
               prev == ContentsAfter(k - 1)
               cur  == ContentsAfter(k)
           IN IF /\ message.tool_calls # <<>>
                 /\ Blank(text)
                 /\ prev # <<>>
                 /\ prev[Len(prev)].role = "model"
              THEN /\ Len(cur) = Len(prev)
                   /\ SubSeq(cur, 1, Len(cur) - 1) = SubSeq(prev, 1, Len(prev) - 1)
                   /\ cur[Len(cur)].role = "model"
                   /\ cur[Len(cur)].parts = prev[Len(prev)].parts \o FunctionCallsOf(message)
              ELSE cur = Append(prev,
                                [role |-> "model",
                                 parts |-> (IF Blank(text) THEN <<>> ELSE <<[text |-> text]>>)
                                             \o FunctionCallsOf(message)])

\* C33 witness: an assistant message with text and a tool call, then one with blank
\* content and a tool call: one model message holds the text and both functionCalls
C33_Witness ==
  /\ body.dialect = "openai"
  /\ requestBody.made
  /\ Len(body.messages) = 2
  /\ body.messages[2].content.items[1] = <<" ">>
  /\ requestBody.contents =
       <<[role |-> "model",
          parts |-> <<[text |-> <<"a">>],
                      [functionCall |-> [id |-> "c1", name |-> "f"]],
                      [functionCall |-> [id |-> "c1", name |-> "g"]]>>]>>

(***************************************************************************)
(* utils/mutex.ts: Mutex.  A caller of runExclusive awaits acquire(), runs  *)
(* its callback and calls release() in the finally block.  acquire() runs  *)
(* its executor synchronously; resolving the promise schedules the caller's *)
(* continuation, which runs later (pc "resolved" until then).               *)
(***************************************************************************)
NotMutex == <<poolVars, rateVars, sseVars, now, idCache, authVars, transVars, reader, logs>>
Callers == 1..MaxCallers

\* release() that clears locked although it hands the lock to the next waiter
releaseUnlocking(m) ==
  IF m.queue # <<>>
  THEN [m EXCEPT !.queue = Tail(@), !.pc[Head(m.queue)] = "resolved", !.locked = FALSE]
  ELSE [m EXCEPT !.locked = FALSE]

\* release(): the head of the queue is resolved with the lock still held, or
\* locked = false when nobody waits
release(m) ==
  IF m.queue # <<>>
  THEN [m EXCEPT !.queue = Tail(@), !.pc[Head(m.queue)] = "resolved"]
  ELSE [m EXCEPT !.locked = FALSE]

\* the executor of acquire() for caller c
acquire(m, c) ==
  IF ~m.locked
  THEN [m EXCEPT !.locked = TRUE, !.pc[c] = "resolved"]
  ELSE [m EXCEPT !.queue = Append(@, c), !.pc[c] = "waiting"]

InitMutex ==
  /\ ConfigDefault
  /\ PoolOff
  /\ RateOff
  /\ SseOff

\* runExclusive(callback) up to 'await this.acquire()'
runExclusive(c) ==
  /\ mutex.pc[c] \in {"idle", "returned", "threw"}
  /\ mutex.runs < MaxRuns
  /\ mutex' = acquire([mutex EXCEPT !.asked = Append(@, c), !.runs = @ + 1], c)
  /\ UNCHANGED NotMutex

\* the continuation after 'await this.acquire()': callback() is called
callbackStarts(c) ==
  /\ mutex.pc[c] = "resolved"
  /\ mutex' = [mutex EXCEPT !.pc[c] = "running", !.admitted = Append(@, c)]
  /\ UNCHANGED NotMutex

\* the callback returns or resolves (ok) or throws or rejects (~ok); finally: release()
callbackSettles(c, ok) ==
  /\ mutex.pc[c] = "running"
  /\ mutex' = release([mutex EXCEPT !.pc[c] = IF ok THEN "returned" ELSE "threw"])
  /\ UNCHANGED NotMutex

callbackReturns(c) == callbackSettles(c, TRUE)
callbackThrows(c) == callbackSettles(c, FALSE)

NextMutex ==
  \E c \in Callers : runExclusive(c) \/ callbackStarts(c) \/ callbackReturns(c) \/ callbackThrows(c)

SpecMutex == InitMutex /\ [][NextMutex]_vars

\* the event loop runs every scheduled continuation, and a callback settles
FairMutex ==
  /\ \A c \in Callers : WF_vars(callbackStarts(c))
  /\ \A c \in Callers : WF_vars(callbackReturns(c) \/ callbackThrows(c))

SpecMutexLive == SpecMutex /\ FairMutex

(***************************************************************************)
(* admin/log-manager.ts.  MAX_LOGS and MAX_BUFFER_SIZE are scaled down to   *)
(* MaxLogs and MaxBuffer.  logs.jobs are the callbacks given to             *)
(* fileMutex.runExclusive, in the order of their acquire: the first one     *)
(* holds the lock.  A log entry is the number of its addLog call.           *)
(***************************************************************************)
NotLogs == <<poolVars, rateVars, sseVars, now, idCache, authVars, transVars, reader, mutex>>

\* s.slice(-n)
LastN(s, n) == IF Len(s) <= n THEN s ELSE SubSeq(s, Len(s) - n + 1, Len(s))
\* s.reverse()
Reverse(s) == [k \in 1..Len(s) |-> s[Len(s) + 1 - k]]
MinNat(a, b) == IF a <= b THEN a ELSE b

\* flushLogs() up to 'await fileMutex.runExclusive': the buffer is taken and emptied
flushLogs(l) ==
  IF l.logBuffer = <<>> THEN l
  ELSE [l EXCEPT !.logBuffer = <<>>,
                 !.jobs = Append(@, [kind |-> "flush", logsToSave |-> l.logBuffer,
                                     pc |-> "queued", currentLogs |-> <<>>])]

InitLogs ==
  /\ ConfigDefault
  /\ PoolOff
  /\ RateOff
  /\ SseOff

\* addLog(level, message): push, then flush a full buffer or start the timer
addLog ==
  /\ logs.count < MaxAdds
  /\ Len(logs.jobs) < MaxJobs
  /\ LET l == [logs EXCEPT !.count = @ + 1, !.logBuffer = Append(@, logs.count + 1),
                           !.added = Append(@, logs.count + 1)]
     IN logs' = IF Len(l.logBuffer) >= MaxBuffer THEN flushLogs(l)
                ELSE [l EXCEPT !.flushTimer = TRUE]
  /\ UNCHANGED NotLogs

\* the callback of setInterval: flushLogs()
flushTimerFires ==
  /\ logs.flushTimer
  /\ Len(logs.jobs) < MaxJobs
  /\ logs' = flushLogs(logs)
  /\ UNCHANGED NotLogs

\* flushLogs inside the lock: the logs file was read
flushLogsRead ==
  /\ logs.jobs # <<>>
  /\ Head(logs.jobs).kind = "flush"
  /\ Head(logs.jobs).pc = "queued"
  /\ logs' = [logs EXCEPT !.jobs[1].pc = "read", !.jobs[1].currentLogs = logs.file]
  /\ UNCHANGED NotLogs

\* flushLogs inside the lock: fs.writeFile resolved (ok) or rejected; the catch block
\* only reports the error; the lock is released
flushLogsWritten(ok) ==
  /\ logs.jobs # <<>>
  /\ Head(logs.jobs).pc = "read"
  /\ logs' = [logs EXCEPT
                !.jobs = Tail(@),
                !.file = IF ok THEN LastN(Head(logs.jobs).currentLogs \o
                                          Head(logs.jobs).logsToSave, MaxLogs)
                         ELSE @,
                !.failed = @ \/ ~ok]
  /\ UNCHANGED NotLogs

\* clearLogs() up to 'await fileMutex.runExclusive'
clearLogs ==
  /\ Len(logs.jobs) < MaxJobs
  /\ logs' = [logs EXCEPT !.logBuffer = <<>>, !.added = <<>>,
                          !.jobs = Append(@, [kind |-> "clear", logsToSave |-> <<>>,
                                              pc |-> "queued", currentLogs |-> <<>>])]
  /\ UNCHANGED NotLogs

\* clearLogs inside the lock: [] was written
clearLogsWritten ==
  /\ logs.jobs # <<>>
  /\ Head(logs.jobs).kind = "clear"
  /\ logs' = [logs EXCEPT !.jobs = Tail(@), !.file = <<>>]
  /\ UNCHANGED NotLogs

\* getRecentLogs(limit): the file as read and the buffer, merged, cut and reversed;
\* due: the entries added since the last clear within the limit and the cap
getRecentLogs(limit) ==
  /\ logs' = [logs EXCEPT !.limit = limit,
                          !.due = LastN(logs.added, MinNat(limit, MaxLogs)),
                          !.result = Reverse(LastN(logs.file \o logs.logBuffer, limit))]
  /\ UNCHANGED NotLogs

NextLogs ==
  \/ addLog
  \/ flushTimerFires
  \/ flushLogsRead
  \/ \E ok \in BOOLEAN : flushLogsWritten(ok)
  \/ clearLogs
  \/ clearLogsWritten
  \/ \E limit \in {1, MaxLogs + MaxBuffer} : getRecentLogs(limit)

SpecLogs == InitLogs /\ [][NextLogs]_vars

(***************************************************************************)
(* Properties of the Mutex                                                  *)
(***************************************************************************)
InCallback == {c \in Callers : mutex.pc[c] = "running"}
IsPrefix(s, t) == Len(s) <= Len(t) /\ \A i \in 1..Len(s) : s[i] = t[i]
\* a callback that throws leaves the lock free or in the hands of the first waiter
ThrowReleases ==
  \A c \in Callers :
    (mutex.pc[c] = "running" /\ mutex'.pc[c] = "threw") =>
      IF mutex.queue = <<>> THEN ~mutex'.locked
      ELSE mutex'.pc[Head(mutex.queue)] = "resolved" /\ mutex'.queue = Tail(mutex.queue)

\* C34: on one Mutex at most one callback runs at a time, callers are admitted in
\* the order of their acquire, a throwing callback releases the lock, and every
\* waiting caller eventually runs its callback
C34_MutexExclusiveFifoLive ==
  /\ [](Cardinality(InCallback) <= 1 /\ IsPrefix(mutex.admitted, mutex.asked))
  /\ [][ThrowReleases]_vars
  /\ \A c \in Callers : (mutex.pc[c] = "waiting") ~> (mutex.pc[c] = "running")
\* a callback threw, a later caller runs its callback and another one still waits
C34_Witness ==
  /\ Len(mutex.admitted) >= 2
  /\ \E c \in Callers : mutex.pc[c] = "threw"
  /\ \E c \in Callers : mutex.pc[c] = "running"
  /\ \E c \in Callers : mutex.pc[c] = "waiting"

(***************************************************************************)
(* Properties of the accounts file under the admin calls                    *)
(***************************************************************************)
\* C35: every credential of the accounts file has a non-empty refresh_token, and
\* no two credentials of the file have the same refresh_token
C35_RefreshTokenUnique ==
  \A k \in 1..Len(accountsFile) :
    /\ accountsFile[k].rt # ""
    /\ \A j \in 1..Len(accountsFile) : accountsFile[j].rt = accountsFile[k].rt => j = k

\* C38: a credential whose deleteAccount completed, and that was not added again, is
\* not in the accounts file
C38_DeleteDurable ==
  \A k \in 1..Len(accountsFile) : accountsFile[k].rt \notin hist.deleted

(***************************************************************************)
(* Properties of the log manager                                            *)
(***************************************************************************)
\* C36: getRecentLogs returns every entry added since the last clear, within the
\* limit and the cap, also during a flush and after a flush whose write failed
C36_RecentLogsComplete ==
  logs.limit # 0 =>
    \A k \in 1..Len(logs.due) : \E j \in 1..Len(logs.result) : logs.result[j] = logs.due[k]

====
